---- MODULE Spec2Model ----
(***************************************************************************)
(* Wallet ledger, transfer engine and payment-gateway reconciliation of    *)
(* walletApi (utils.py, views.py, models.py).                              *)
(*                                                                         *)
(* Money is counted in minor units (1.00 = 100).  The store is one         *)
(* database with row locks (select_for_update) and READ COMMITTED          *)
(* visibility: a request sees what other requests have committed, a        *)
(* write waits for the row lock, and an atomic block's writes appear to    *)
(* other requests at its commit.  Each request is a process whose pc is    *)
(* the place in its handler where it waits (for a row lock or for the      *)
(* payment provider).                                                      *)
(***************************************************************************)
EXTENDS Integers, Sequences, FiniteSets, TLC

VARIABLES wallets, txns, lock, procs, response, beneficiaries, analytics,
          cards, credited, started, pins

vars == <<wallets, txns, lock, procs, response, beneficiaries, analytics,
          cards, credited, started, pins>>

(* ----------------------------- bounds --------------------------------- *)
NumUsers == 2
NumProcs == 2
MaxOps == 2

Users == 1..NumUsers
Procs == 1..NumProcs

(* ------------------------- program constants -------------------------- *)
InitialBalance == 100000
MinTransfer == 100
MaxTransfer == 10000000
MinTopUp == 10000

\* amounts a request may carry: 100.10 and 600.00
Amounts == {10010, 60000}
BillTypes == {"airtime", "electricity"}
AuthCodes == {"AUTH_a"}
NoAuth == "none"

(* ------------------------------ records ------------------------------- *)
\* a wallet row: exists is FALSE where a user has no Wallet row
NoWallet == [exists |-> FALSE, balance |-> 0, is_active |-> FALSE,
             is_frozen |-> FALSE]

NoTxn == [wallet |-> 0, sender |-> 0, recipient |-> 0,
          transaction_type |-> "none", transaction_category |-> "none",
          amount |-> 0, balance_before |-> 0, balance_after |-> 0,
          status |-> "none", completed_at |-> 0]

NoResp == <<0, "none">>

\* the balances a response reports (process_transfer's sender_balance and
\* recipient_balance); none for the other responses
NoBalances == <<>>

\* the card list a response carries; none for the other responses
NoData == {}

NoBeneficiary == [exists |-> FALSE, total_sent |-> 0, transaction_count |-> 0]

\* a request that carries no transaction_pin
NoPin == <<>>

\* TransactionPin: a user's row (exists FALSE: the user has none).  pin is
\* the stored hash; locked_until is "none" (NULL), "future" (later than now)
\* or "past" (a lockout that has run out)
NoPinRow == [exists |-> FALSE, pin |-> <<>>, is_active |-> TRUE,
             failed_attempts |-> 0, locked_until |-> "none"]

IdleProc == [pc |-> "idle", op |-> "none", user |-> 0, other |-> 0,
             ref |-> 0, amount |-> 0, wsnap |-> NoWallet, rsnap |-> NoWallet,
             tsnap |-> NoTxn, card |-> 0, pay |-> 0, verified |-> 0,
             auth |-> NoAuth, resp |-> NoResp, balances |-> NoBalances,
             data |-> NoData, bsnap |-> NoBeneficiary, pin |-> NoPin,
             psnap |-> NoPinRow]

\* a request that returns: which request it was, the reference it named, the
\* amount the provider verified for it (0: none) and the response it gives
Finished(pr, resp) ==
    [IdleProc EXCEPT !.op = pr.op, !.ref = pr.ref, !.verified = pr.verified,
                     !.resp = resp, !.balances = pr.balances,
                     !.data = pr.data]

\* the response most recently sent to a caller
ResponseOf(rec) ==
    [op |-> rec.op, ref |-> rec.ref, verified |-> rec.verified, resp |-> rec.resp,
     balances |-> rec.balances, data |-> rec.data]

NoAnalytics == [exists |-> FALSE, total_credits |-> 0, total_debits |-> 0,
                total_transactions |-> 0, transfers_sent |-> 0,
                transfers_received |-> 0, bill_payments |-> 0,
                airtime_purchases |-> 0, closing_balance |-> 0]

(* ------------------------------ helpers ------------------------------- *)
\* Wallet.can_transact
can_transact(w, amount) ==
    w.is_active /\ ~w.is_frozen /\ w.balance >= amount

\* (mutant) the serializer without its minimum
validate_amount_NoMinimum(value) ==
    value > 0 /\ value <= MaxTransfer

\* SendMoneySerializer.validate_amount
validate_amount(value) ==
    value > 0 /\ value >= MinTransfer /\ value <= MaxTransfer

\* (mutant) update_analytics adding the amount to both totals
update_analytics_BothTotals(row, t, bal) ==
    LET credit == t.transaction_type = "credit"
        cat == t.transaction_category
    IN [exists |-> TRUE,
        total_credits |-> row.total_credits + t.amount,
        total_debits |-> row.total_debits + t.amount,
        total_transactions |-> row.total_transactions + 1,
        transfers_sent |-> row.transfers_sent
                           + (IF ~credit /\ cat = "transfer" THEN 1 ELSE 0),
        transfers_received |-> row.transfers_received
                           + (IF credit /\ cat = "transfer" THEN 1 ELSE 0),
        bill_payments |-> row.bill_payments
                           + (IF ~credit /\ cat = "bill_payment" THEN 1 ELSE 0),
        airtime_purchases |-> row.airtime_purchases
                           + (IF ~credit /\ cat = "airtime" THEN 1 ELSE 0),
        closing_balance |-> bal]

\* update_analytics: the (user, today) row after recording txn t, the user's
\* wallet balance being bal
update_analytics(row, t, bal) ==
    LET credit == t.transaction_type = "credit"
        cat == t.transaction_category
    IN [exists |-> TRUE,
        total_credits |-> row.total_credits + (IF credit THEN t.amount ELSE 0),
        total_debits |-> row.total_debits + (IF credit THEN 0 ELSE t.amount),
        total_transactions |-> row.total_transactions + 1,
        transfers_sent |-> row.transfers_sent
                           + (IF ~credit /\ cat = "transfer" THEN 1 ELSE 0),
        transfers_received |-> row.transfers_received
                           + (IF credit /\ cat = "transfer" THEN 1 ELSE 0),
        bill_payments |-> row.bill_payments
                           + (IF ~credit /\ cat = "bill_payment" THEN 1 ELSE 0),
        airtime_purchases |-> row.airtime_purchases
                           + (IF ~credit /\ cat = "airtime" THEN 1 ELSE 0),
        closing_balance |-> bal]

\* timezone.now(): later than every completed_at stored (0 is null)
RECURSIVE LatestCompletedAt(_)
LatestCompletedAt(n) ==
    IF n = 0 THEN 0
    ELSE LET rest == LatestCompletedAt(n - 1)
         IN IF txns[n].completed_at > rest THEN txns[n].completed_at ELSE rest

Now == LatestCompletedAt(Len(txns)) + 1

\* a row of the Transaction table written as completed
CompletedTxn(w, snd, rcp, ttype, cat, amount, before, after) ==
    [wallet |-> w, sender |-> snd, recipient |-> rcp,
     transaction_type |-> ttype, transaction_category |-> cat,
     amount |-> amount, balance_before |-> before, balance_after |-> after,
     status |-> "completed", completed_at |-> Now]

\* (mutant) a pending row that already counts the amount into balance_after
PendingTxn_Credited(u, amount, bal) ==
    [wallet |-> u, sender |-> 0, recipient |-> u,
     transaction_type |-> "credit", transaction_category |-> "deposit",
     amount |-> amount, balance_before |-> bal, balance_after |-> bal + amount,
     status |-> "pending", completed_at |-> 0]

\* create_pending_transaction: the row of a top-up awaiting the provider
PendingTxn(u, amount, bal) ==
    [wallet |-> u, sender |-> 0, recipient |-> u,
     transaction_type |-> "credit", transaction_category |-> "deposit",
     amount |-> amount, balance_before |-> bal, balance_after |-> bal,
     status |-> "pending", completed_at |-> 0]

(* ------------------------------- Init --------------------------------- *)
\* Every user has a wallet holding InitialBalance.  The ledger is empty, or
\* user 1 has initiated one top-up that the provider accepted and that has
\* not been reconciled yet (TopUpInitiate and TopUpResponse "success" lead
\* from the first state to the second).
InitialLedgers ==
    {<<>>} \cup {<<PendingTxn(1, a, InitialBalance)>> : a \in Amounts}

Init ==
    /\ wallets = [u \in Users |->
                    [exists |-> TRUE, balance |-> InitialBalance,
                     is_active |-> TRUE, is_frozen |-> FALSE]]
    /\ txns \in InitialLedgers
    /\ lock = [u \in Users |-> 0]
    /\ procs = [p \in Procs |-> IdleProc]
    /\ response = ResponseOf(IdleProc)
    /\ beneficiaries = [pair \in Users \X Users |-> NoBeneficiary]
    /\ analytics = [u \in Users |-> NoAnalytics]
    /\ cards = <<>>
    /\ credited = [i \in DOMAIN txns |-> 0]
    /\ started = 0
    /\ pins = [u \in Users |-> NoPinRow]

\* A wallet with history: user 1 holds InitialBalance after a first top-up
\* that a reconciliation completed (TopUpInitiate, TopUpResponse "success",
\* VerifyPayment, PollVerifyResponse, PollCredit lead there from a wallet that
\* held less), and has initiated a second one that is still pending.
HistoryLedgers ==
    {<<[PendingTxn(1, a, InitialBalance - a)
          EXCEPT !.status = "completed", !.balance_after = InitialBalance,
                 !.completed_at = 1],
       PendingTxn(1, b, InitialBalance)>> : a \in Amounts, b \in Amounts}

InitHistory ==
    /\ wallets = [u \in Users |->
                    [exists |-> TRUE, balance |-> InitialBalance,
                     is_active |-> TRUE, is_frozen |-> FALSE]]
    /\ txns \in HistoryLedgers
    /\ lock = [u \in Users |-> 0]
    /\ procs = [p \in Procs |-> IdleProc]
    /\ response = ResponseOf(IdleProc)
    /\ beneficiaries = [pair \in Users \X Users |-> NoBeneficiary]
    /\ analytics = [u \in Users |-> NoAnalytics]
    /\ cards = <<>>
    /\ credited = <<1, 0>>
    /\ started = 0
    /\ pins = [u \in Users |-> NoPinRow]

\* a new request is served by the first free worker (workers are
\* interchangeable), while the bound on requests allows one
CanStart(p) ==
    /\ procs[p].pc = "idle"
    /\ started < MaxOps
    /\ \A q \in Procs : q < p => procs[q].pc # "idle"

\* worker p goes on as rec says: it keeps working, or it returns its response
Proceed(p, rec) ==
    IF rec.pc = "idle"
      THEN /\ procs' = [procs EXCEPT ![p] = IdleProc]
           /\ response' = ResponseOf(rec)
      ELSE /\ procs' = [procs EXCEPT ![p] = rec]
           /\ UNCHANGED response

(* --------------------------- transaction PIN -------------------------- *)
\* failed verifications after which the PIN is locked
MaxFailedAttempts == 3

\* django.contrib.auth.hashers.make_password: the stored encoding of a PIN
make_password(pin) == <<"pbkdf2_sha256", pin>>

\* (mutant) a check that accepts every PIN
check_password_Any(pin, encoded) == TRUE

\* django.contrib.auth.hashers.check_password
check_password(pin, encoded) == encoded = make_password(pin)

\* TransactionPinSerializer.validate
ValidPin(pin, confirm_pin) ==
    /\ pin = confirm_pin
    /\ Len(pin) = 4
    /\ \A i \in DOMAIN pin : pin[i] \in 0..9

\* SetTransactionPinView.post: the serializer, get_or_create and the save of
\* the new hash with the counters cleared
SetTransactionPin(p, u, pin, confirm_pin) ==
    /\ CanStart(p)
    /\ started' = started + 1
    /\ LET me == [IdleProc EXCEPT !.op = "set_pin", !.user = u]
       IN IF ~ValidPin(pin, confirm_pin)
            THEN /\ Proceed(p, Finished(me, <<400, "Validation failed">>))
                 /\ UNCHANGED pins
            ELSE /\ pins' = [pins EXCEPT ![u] =
                                [exists |-> TRUE, pin |-> make_password(pin),
                                 is_active |-> TRUE, failed_attempts |-> 0,
                                 locked_until |-> "none"]]
                 /\ Proceed(p,
                      Finished(me,
                        <<200, IF pins[u].exists
                                 THEN "Transaction PIN updated successfully"
                                 ELSE "Transaction PIN created successfully">>))
    /\ UNCHANGED <<wallets, txns, lock, beneficiaries, analytics, cards, credited>>

\* thirty minutes pass after a lockout: locked_until is no longer later than
\* timezone.now()
LockoutExpires(u) ==
    /\ pins[u].locked_until = "future"
    /\ pins' = [pins EXCEPT ![u] = [pins[u] EXCEPT !.locked_until = "past"]]
    /\ UNCHANGED <<wallets, txns, lock, procs, response, beneficiaries, analytics,
                   cards, credited, started>>

\* the view after the PIN check: process_transfer or process_bill_payment
\* up to its row lock, with can_transact on the wallet the view loaded
AfterPin(rec) ==
    IF ~can_transact(rec.wsnap, rec.amount)
      THEN Finished(rec, <<400, "Insufficient balance or wallet is frozen">>)
      ELSE [rec EXCEPT !.pc = IF rec.op = "transfer" THEN "xfer_lock_recipient"
                                                     ELSE "bill_lock",
                       !.pin = NoPin, !.psnap = NoPinRow]

\* "if transaction_pin:" and verify_transaction_pin up to check_password:
\* the row is loaded, and a missing, disabled or locked PIN refuses the
\* request
PinCheck(rec, pin) ==
    LET row == pins[rec.user]
    IN IF pin = NoPin
         THEN AfterPin(rec)
       ELSE IF ~row.exists
         THEN Finished(rec, <<400, "Transaction PIN not set. Please set up your PIN first.">>)
       ELSE IF ~row.is_active
         THEN Finished(rec, <<400, "Transaction PIN is disabled">>)
       ELSE IF row.locked_until = "future"
         THEN Finished(rec, <<400, "Transaction PIN is locked. Try again later.">>)
         ELSE [rec EXCEPT !.pc = "pin_save", !.pin = pin, !.psnap = row]

\* verify_transaction_pin from check_password on: the loaded row is saved
\* with failed_attempts cleared, or raised by one and, from the third
\* failure on, locked for thirty minutes
PinSave(p) ==
    LET pr == procs[p]
        row == pr.psnap
        n == row.failed_attempts + 1
    IN /\ pr.pc = "pin_save"
       /\ IF check_password(pr.pin, row.pin)
            THEN /\ pins' = [pins EXCEPT ![pr.user] =
                                [row EXCEPT !.failed_attempts = 0]]
                 /\ Proceed(p, AfterPin(pr))
          ELSE IF n >= MaxFailedAttempts
            THEN /\ pins' = [pins EXCEPT ![pr.user] =
                                [row EXCEPT !.failed_attempts = n,
                                            !.locked_until = "future"]]
                 /\ Proceed(p,
                      Finished(pr, <<400, "Too many failed attempts. PIN locked for 30 minutes.">>))
            ELSE /\ pins' = [pins EXCEPT ![pr.user] =
                                [row EXCEPT !.failed_attempts = n]]
                 /\ Proceed(p,
                      Finished(pr,
                        <<400, IF n = 1 THEN "Invalid PIN. 2 attempts remaining."
                                        ELSE "Invalid PIN. 1 attempts remaining.">>))
       /\ UNCHANGED <<wallets, txns, lock, beneficiaries, analytics, cards, credited,
                      started>>

(* --------------------------- SendMoneyView ---------------------------- *)
\* (mutant) the view without its self-transfer check
SelfTransfer_Unchecked(u, r) == FALSE

\* if recipient == user
SelfTransfer(u, r) == r = u

\* SendMoneyView.post up to the first row lock of process_transfer or to
\* the save of the PIN row: the serializer, the sender's wallet as loaded by
\* the view, the self-transfer check, the PIN check and can_transact on that
\* loaded wallet
SendMoneyRequest(p, u, r, amount, pin) ==
    /\ CanStart(p)
    /\ started' = started + 1
    /\ LET me == [IdleProc EXCEPT !.op = "transfer", !.user = u, !.other = r,
                                  !.amount = amount]
           w == wallets[u]
       IN Proceed(p,
            IF ~validate_amount(amount) \/ Len(pin) > 4
              THEN Finished(me, <<400, "Validation failed">>)
            ELSE IF ~w.exists
              THEN Finished(me, <<404, "Wallet not found">>)
            ELSE IF SelfTransfer(u, r)
              THEN Finished(me, <<400, "Cannot send money to yourself">>)
            ELSE PinCheck([me EXCEPT !.wsnap = w], pin))
    /\ UNCHANGED <<pins, wallets, txns, lock, beneficiaries, analytics, cards, credited>>

\* a transfer request without transaction_pin
SendMoney(p, u, r, amount) == SendMoneyRequest(p, u, r, amount, NoPin)

\* process_transfer: select_for_update of the recipient's wallet, and the
\* recipient's active/frozen check
TransferLockRecipient(p) ==
    LET pr == procs[p]
        rw == wallets[pr.other]
    IN /\ pr.pc = "xfer_lock_recipient"
       /\ rw.exists => lock[pr.other] = 0
       /\ IF ~rw.exists
            THEN /\ Proceed(p,
                        Finished(pr, <<400, "Recipient wallet not found">>))
                 /\ UNCHANGED lock
          ELSE IF ~rw.is_active \/ rw.is_frozen
            THEN /\ Proceed(p,
                        Finished(pr, <<400, "Recipient wallet is not active">>))
                 /\ UNCHANGED lock
            ELSE /\ Proceed(p,
                        [pr EXCEPT !.pc = "xfer_lock_sender", !.rsnap = rw])
                 /\ lock' = [lock EXCEPT ![pr.other] = p]
       /\ UNCHANGED <<pins, wallets, txns, beneficiaries, analytics, cards, credited,
                      started>>

\* the two ledger rows and the balances a transfer writes, from the sender's
\* balance read under its lock (sbal) and the recipient's (rbal)
\* (mutant) a debit that leaves the sender's balance as it was
TransferDebit_Free(s, r, amount, sbal) ==
    CompletedTxn(s, s, r, "debit", "transfer", amount, sbal, sbal)

TransferDebit(s, r, amount, sbal) ==
    CompletedTxn(s, s, r, "debit", "transfer", amount, sbal, sbal - amount)

\* (mutant) a credit row that carries less than the debit
TransferCredit_Short(s, r, amount, rbal) ==
    CompletedTxn(r, s, r, "credit", "transfer", amount - 1, rbal, rbal + amount - 1)

TransferCredit(s, r, amount, rbal) ==
    CompletedTxn(r, s, r, "credit", "transfer", amount, rbal, rbal + amount)

\* (mutant) the debit computed from the wallet object the view loaded
SenderBalanceForUpdate_Stale(pr) == pr.wsnap.balance

\* sender_wallet = Wallet.objects.select_for_update().get(id=...):
\* the sender's balance the debit starts from is the row read under the lock
SenderBalanceForUpdate(pr) == wallets[pr.user].balance

\* generate_transaction_reference: "TXN-" the second of the clock "-" six
\* hexadecimal digits of a random UUID
generate_transaction_reference(second, uid) == <<second, uid>>

\* the rows of a ledger whose references are not spelled out are told apart
\* by their position
NoRef == <<0, 0>>

\* a row with its reference column
WithReference(t, ref) ==
    IF ref = NoRef THEN t ELSE [reference |-> ref] @@ t

\* (mutant) a reference column without its unique constraint
ReferenceTaken_NoConstraint(ref, rows) == FALSE

\* reference = models.CharField(unique=True): an INSERT of a reference that
\* one of rows has already raises IntegrityError
ReferenceTaken(ref, rows) ==
    ref # NoRef /\ \E i \in DOMAIN rows : rows[i].reference = ref

\* process_transfer from the select_for_update of the sender's wallet to the
\* commit: debit, credit, both ledger rows (their references ref1 and ref2),
\* beneficiary, analytics.  An INSERT the unique constraint rejects raises
\* out of the atomic block, which is rolled back, and the view answers 500.
TransferCommit(p, ref1, ref2) ==
    LET pr == procs[p]
        s == pr.user
        r == pr.other
        sbal == SenderBalanceForUpdate(pr)
        rbal == pr.rsnap.balance
        debit == WithReference(TransferDebit(s, r, pr.amount, sbal), ref1)
        creditT == WithReference(TransferCredit(s, r, pr.amount, rbal), ref2)
        b == beneficiaries[<<s, r>>]
    IN /\ pr.pc = "xfer_lock_sender"
       /\ lock[s] \in {0, p}
       /\ IF \/ ReferenceTaken(ref1, txns)
             \/ ReferenceTaken(ref2, Append(txns, debit))
            THEN /\ lock' = [u \in Users |-> IF lock[u] = p THEN 0 ELSE lock[u]]
                 /\ Proceed(p, Finished(pr,
                        <<500, "Transaction failed. Please try again.">>))
                 /\ UNCHANGED <<wallets, txns, credited, beneficiaries, analytics>>
            ELSE /\ wallets' = [wallets EXCEPT
                        ![s] = [wallets[s] EXCEPT !.balance = debit.balance_after],
                        ![r] = [pr.rsnap EXCEPT !.balance = creditT.balance_after]]
                 /\ txns' = txns \o <<debit, creditT>>
                 /\ credited' = credited \o <<0, 0>>
                 /\ beneficiaries' = [beneficiaries EXCEPT ![<<s, r>>] =
                              [exists |-> TRUE,
                               total_sent |-> b.total_sent + pr.amount,
                               transaction_count |-> b.transaction_count + 1]]
                 /\ analytics' = [analytics EXCEPT
                          ![s] = update_analytics(analytics[s], debit,
                                                  debit.balance_after),
                          ![r] = update_analytics(analytics[r], creditT,
                                                  creditT.balance_after)]
                 /\ lock' = [lock EXCEPT ![r] = 0]
                 /\ Proceed(p,
                       Finished([pr EXCEPT !.balances =
                                   <<debit.balance_after, creditT.balance_after>>],
                                <<200, "Money sent successfully">>))
       /\ UNCHANGED <<pins, cards, started>>

\* a transfer's commit in a ledger whose references are not spelled out
TransferLockSender(p) == TransferCommit(p, NoRef, NoRef)

\* p waits for the row lock q holds
WaitsFor(p, q) ==
    /\ p # q
    /\ \/ procs[p].pc = "xfer_lock_recipient" /\ lock[procs[p].other] = q
       \/ procs[p].pc = "xfer_lock_sender" /\ lock[procs[p].user] = q

\* the database ends a lock cycle by failing one of the waiting statements;
\* the view answers 500 and the atomic block is rolled back
TransferDeadlock(p) ==
    /\ \E q \in Procs : WaitsFor(p, q) /\ WaitsFor(q, p)
    /\ lock' = [u \in Users |-> IF lock[u] = p THEN 0 ELSE lock[u]]
    /\ Proceed(p,
                    Finished(procs[p], <<500, "Transaction failed. Please try again.">>))
    /\ UNCHANGED <<pins, wallets, txns, beneficiaries, analytics, cards, credited, started>>

(* -------------------------- BillPaymentView --------------------------- *)
\* BillPaymentView.post up to the row lock of process_bill_payment or to
\* the save of the PIN row: the serializer (amount > 0), the wallet as loaded
\* by the view, the PIN check and can_transact on that loaded wallet
BillPaymentRequest(p, u, bill_type, amount, pin) ==
    /\ CanStart(p)
    /\ started' = started + 1
    /\ LET me == [IdleProc EXCEPT !.op = bill_type, !.user = u, !.amount = amount]
           w == wallets[u]
       IN Proceed(p,
            IF ~(amount > 0) \/ Len(pin) > 4
              THEN Finished(me, <<400, "Validation failed">>)
            ELSE IF ~w.exists
              THEN Finished(me, <<404, "Wallet not found">>)
            ELSE PinCheck([me EXCEPT !.wsnap = w], pin))
    /\ UNCHANGED <<pins, wallets, txns, lock, beneficiaries, analytics, cards, credited>>

\* a bill payment request without transaction_pin
BillPayment(p, u, bill_type, amount) == BillPaymentRequest(p, u, bill_type, amount, NoPin)

\* the ledger row of a bill payment, from the balance read under the lock
BillDebit(u, bill_type, amount, bal) ==
    CompletedTxn(u, u, 0, "debit",
                 IF bill_type \in {"airtime", "data"} THEN "airtime" ELSE "bill_payment",
                 amount, bal, bal - amount)

\* process_bill_payment from select_for_update to the commit
BillLockAndDebit(p) ==
    LET pr == procs[p]
        u == pr.user
        t == BillDebit(u, pr.op, pr.amount, wallets[u].balance)
    IN /\ pr.pc = "bill_lock"
       /\ lock[u] = 0
       /\ wallets' = [wallets EXCEPT ![u] = [wallets[u] EXCEPT !.balance = t.balance_after]]
       /\ txns' = Append(txns, t)
       /\ credited' = Append(credited, 0)
       /\ analytics' = [analytics EXCEPT ![u] =
                          update_analytics(analytics[u], t, t.balance_after)]
       /\ Proceed(p, Finished(pr, <<200, "payment successful">>))
       /\ UNCHANGED <<pins, lock, beneficiaries, cards, started>>

(* ------------------------- add_money_to_wallet ------------------------ *)
\* (mutant) a deposit row whose balance_after leaves the amount out
DepositCredit_NotAdded(u, amount, bal) ==
    CompletedTxn(u, 0, u, "credit", "deposit", amount, bal, bal)

\* the ledger row of a deposit
DepositCredit(u, amount, bal) ==
    CompletedTxn(u, 0, u, "credit", "deposit", amount, bal, bal + amount)

\* add_money_to_wallet: one atomic unit under the wallet's row lock
AddMoneyToWallet(u, amount) ==
    LET t == DepositCredit(u, amount, wallets[u].balance)
    IN /\ started < MaxOps
       /\ started' = started + 1
       /\ lock[u] = 0
       /\ wallets' = [wallets EXCEPT ![u] = [wallets[u] EXCEPT !.balance = t.balance_after]]
       /\ txns' = Append(txns, t)
       /\ credited' = Append(credited, 1)
       /\ analytics' = [analytics EXCEPT ![u] =
                          update_analytics(analytics[u], t, t.balance_after)]
       /\ UNCHANGED <<pins, lock, procs, response, beneficiaries, cards>>

(* ------------------------- payment provider --------------------------- *)
\* what the provider answers to transaction/verify: a verified success with
\* an amount in minor units and perhaps a reusable authorization, a
\* non-success status, or no answer at all (the HTTP call raises)
VerifyResponses ==
    [kind : {"success"}, amount : Amounts, auth : AuthCodes \cup {NoAuth}]
    \cup {[kind |-> "abandoned", amount |-> 0, auth |-> NoAuth],
          [kind |-> "exception", amount |-> 0, auth |-> NoAuth]}

\* answers to transaction/initialize and transaction/charge_authorization
CallOutcomes == {"success", "failed", "exception"}

\* paystack_webhook: verified_amount_kobo / 100 is a binary float, compared
\* with the stored Decimal by value.  The quotient is the decimal k/100 only
\* when k/100 is a binary fraction, that is when 25 divides k.
WebhookAmountMatches(kobo, amount) ==
    kobo = amount /\ kobo % 25 = 0

\* (mutant) the poll without its amount check
PollAmountMatches_Unchecked(kobo, amount) == TRUE

\* VerifyPaymentView.get: Decimal(verified_amount_kobo) / 100 is exact
PollAmountMatches(kobo, amount) ==
    kobo = amount

\* (mutant) completion that leaves the pending row's snapshots as they were
ReconcileCompleted_StaleSnapshots(t, before) ==
    [t EXCEPT !.status = "completed", !.completed_at = Now]

\* the row a reconciliation writes on verified success: the transaction
\* object it read, completed, with the snapshots of the wallet it credited
ReconcileCompleted(t, before) ==
    [t EXCEPT !.status = "completed", !.transaction_type = "credit",
              !.transaction_category = "deposit", !.balance_before = before,
              !.balance_after = before + t.amount, !.completed_at = Now]

\* transaction.status = 'failed'; transaction.save(): the whole row is
\* written from the object the request holds
MarkFailed(t) == [t EXCEPT !.status = "failed"]

(* -------------------------- TopUpInitiateView ------------------------- *)
\* (mutant) the row lock of create_pending_transaction kept by the request
LockAfterPending_Held(p, u) == [lock EXCEPT ![u] = p]

\* the row locks once create_pending_transaction has returned: its atomic
\* block has committed, which released the lock it took on the wallet row
LockAfterPending(p, u) == lock

\* TopUpInitiateView.post up to the provider call: the serializer and
\* create_pending_transaction (its own atomic block, under the row lock)
TopUpInitiate(p, u, amount) ==
    /\ CanStart(p)
    /\ started' = started + 1
    /\ LET me == [IdleProc EXCEPT !.op = "topup", !.user = u, !.amount = amount]
           t == PendingTxn(u, amount, wallets[u].balance)
       IN IF amount < MinTopUp
            THEN /\ Proceed(p, Finished(me, <<400, "Validation failed">>))
                 /\ UNCHANGED <<txns, credited, lock>>
          ELSE IF ~wallets[u].exists
            THEN /\ Proceed(p, Finished(me, <<404, "Wallet not found">>))
                 /\ UNCHANGED <<txns, credited, lock>>
            ELSE /\ lock[u] = 0
                 /\ txns' = Append(txns, t)
                 /\ credited' = Append(credited, 0)
                 /\ lock' = LockAfterPending(p, u)
                 /\ Proceed(p,
                       [me EXCEPT !.pc = "topup_call", !.ref = Len(txns) + 1,
                                  !.tsnap = t])
    /\ UNCHANGED <<pins, wallets, beneficiaries, analytics, cards>>

\* the provider's answer to transaction/initialize
TopUpResponse(p, outcome) ==
    LET pr == procs[p]
    IN /\ pr.pc = "topup_call"
       /\ CASE outcome = "success" ->
                 /\ Proceed(p,
                       Finished(pr, <<200, "Payment initiation successful">>))
                 /\ UNCHANGED txns
            [] outcome = "failed" ->
                 /\ txns' = [txns EXCEPT ![pr.ref] = MarkFailed(pr.tsnap)]
                 /\ Proceed(p,
                       Finished(pr, <<500, "Failed to initiate payment with Paystack">>))
            [] outcome = "exception" ->
                 \* requests.post raises outside any try: the view ends 500
                 /\ Proceed(p, Finished(pr, <<500, "unhandled">>))
                 /\ UNCHANGED txns
       /\ UNCHANGED <<pins, wallets, lock, beneficiaries, analytics, cards, credited, started>>

(* --------------------------- paystack_webhook ------------------------- *)
\* the signature step: with a secret configured the header must equal the
\* HMAC-SHA512 digest of the body; with none configured nothing is checked
SignatureAccepted(secret, sigOK) == secret => sigOK

\* (mutant) the webhook without its event filter
IgnoredEvent_None(event) == FALSE

\* if event != 'charge.success': acknowledged and ignored
IgnoredEvent(event) == event # "charge.success"

\* paystack_webhook up to the provider's verify call: signature, event type,
\* reference, the transaction row by reference, the already-completed guard.
\* pay is the amount the notification's data carries.
\* (mutant) the webhook without its already-completed guard
WebhookReceived_NoGuard(secret, sigOK, event, ref, pay) ==
    LET me == [IdleProc EXCEPT !.op = "webhook", !.ref = ref]
    IN IF ~SignatureAccepted(secret, sigOK)
         THEN Finished(me, <<401, "Unauthorized">>)
       ELSE IF IgnoredEvent(event)
         THEN Finished(me, <<200, "Event received but ignored">>)
       ELSE IF ref = 0
         THEN Finished(me, <<400, "Missing Reference">>)
       ELSE IF ref \notin DOMAIN txns
         THEN Finished(me, <<404, "Transaction reference not found">>)
       ELSE [me EXCEPT !.pc = "wh_verify", !.tsnap = txns[ref], !.pay = pay]

WebhookReceived(secret, sigOK, event, ref, pay) ==
    LET me == [IdleProc EXCEPT !.op = "webhook", !.ref = ref]
    IN IF ~SignatureAccepted(secret, sigOK)
         THEN Finished(me, <<401, "Unauthorized">>)
       ELSE IF IgnoredEvent(event)
         THEN Finished(me, <<200, "Event received but ignored">>)
       ELSE IF ref = 0
         THEN Finished(me, <<400, "Missing Reference">>)
       ELSE IF ref \notin DOMAIN txns
         THEN Finished(me, <<404, "Transaction reference not found">>)
       ELSE IF txns[ref].status = "completed"
         THEN Finished(me, <<200, "Transaction already completed">>)
       ELSE [me EXCEPT !.pc = "wh_verify", !.tsnap = txns[ref], !.pay = pay]

PaystackWebhook(p, secret, sigOK, event, ref, pay) ==
    /\ CanStart(p)
    /\ started' = started + 1
    /\ Proceed(p, WebhookReceived(secret, sigOK, event, ref, pay))
    /\ UNCHANGED <<pins, wallets, txns, lock, beneficiaries, analytics, cards, credited>>

\* (mutant) the amount the notification carries taken for the verified one
WebhookVerifiedAmount_FromPayload(pr, vr) == pr.pay

\* verified_amount_kobo = verify_data['data']['amount']
WebhookVerifiedAmount(pr, vr) == vr.amount

\* the webhook's decision once the provider has answered the verify call:
\* "credit", "mismatch" or "failed"
WebhookDecision(pr, vr) ==
    IF vr.kind = "success"
      THEN IF WebhookAmountMatches(WebhookVerifiedAmount(pr, vr), pr.tsnap.amount)
             THEN "credit" ELSE "mismatch"
      ELSE "failed"

\* paystack_webhook from the provider's answer to the read of the wallet
\* row (transaction.wallet, read without a lock) or to the failed row
WebhookVerifyResponse(p, vr) ==
    LET pr == [procs[p] EXCEPT !.verified =
                 IF vr.kind = "success" THEN WebhookVerifiedAmount(procs[p], vr) ELSE 0]
        d == WebhookDecision(pr, vr)
    IN /\ pr.pc = "wh_verify"
       /\ CASE vr.kind = "exception" ->
                 \* requests.get raises outside any try: the view ends 500
                 /\ Proceed(p, Finished(pr, <<500, "unhandled">>))
                 /\ UNCHANGED txns
            [] vr.kind # "exception" /\ d = "credit" ->
                 /\ Proceed(p,
                       [pr EXCEPT !.pc = "wh_credit", !.auth = vr.auth,
                                  !.wsnap = wallets[pr.tsnap.wallet]])
                 /\ UNCHANGED txns
            [] vr.kind # "exception" /\ d = "mismatch" ->
                 /\ txns' = [txns EXCEPT ![pr.ref] = MarkFailed(pr.tsnap)]
                 /\ Proceed(p, Finished(pr, <<400, "Amount mismatch">>))
            [] vr.kind # "exception" /\ d = "failed" ->
                 /\ txns' = [txns EXCEPT ![pr.ref] = MarkFailed(pr.tsnap)]
                 /\ Proceed(p,
                       Finished(pr, <<200, "Transaction failed verification">>))
       /\ UNCHANGED <<pins, wallets, lock, beneficiaries, analytics, cards, credited, started>>

\* wallet.balance += transaction.amount; wallet.save(): the wallet row as
\* the request read it, with the amount added
CreditedWallet(wsnap, amount) ==
    [wsnap EXCEPT !.balance = wsnap.balance + amount]

\* paystack_webhook: wallet.save(), transaction.save() and the commit; the
\* authorization that verify_data carries is not read
WebhookCredit(p) ==
    LET pr == procs[p]
        w == pr.tsnap.wallet
    IN /\ pr.pc = "wh_credit"
       /\ lock[w] = 0
       /\ wallets' = [wallets EXCEPT ![w] = CreditedWallet(pr.wsnap, pr.tsnap.amount)]
       /\ txns' = [txns EXCEPT ![pr.ref] = ReconcileCompleted(pr.tsnap, pr.wsnap.balance)]
       /\ credited' = [credited EXCEPT ![pr.ref] = @ + 1]
       /\ Proceed(p, Finished(pr, <<200, "Wallet credited successfully">>))
       /\ UNCHANGED <<pins, lock, beneficiaries, analytics, cards, started>>

(* --------------------------- VerifyPaymentView ------------------------ *)
\* (mutant) a poll that takes every caller for the owner
OwnedBy_Anyone(t, u) == TRUE

\* transaction.wallet.user == user
OwnedBy(t, u) == t.wallet = u

\* VerifyPaymentView.get up to the provider's verify call: the transaction
\* row by reference, the owner check, the already-completed guard
VerifyPaymentRequest(p, u, ref) ==
    /\ procs[p].pc = "idle"
    /\ LET me == [IdleProc EXCEPT !.op = "poll", !.user = u, !.ref = ref]
       IN Proceed(p,
            IF ref \notin DOMAIN txns
              THEN Finished(me, <<404, "Transaction not found">>)
            ELSE IF ~OwnedBy(txns[ref], u)
              THEN Finished(me, <<403, "Unauthorized">>)
            ELSE IF txns[ref].status = "completed"
              THEN Finished(me, <<200, "Transaction already completed">>)
            ELSE [me EXCEPT !.pc = "poll_verify", !.tsnap = txns[ref]])
    /\ UNCHANGED <<pins, wallets, txns, lock, beneficiaries, analytics, cards, credited>>

\* a poll counted against the bound on requests
VerifyPayment(p, u, ref) ==
    /\ CanStart(p)
    /\ started' = started + 1
    /\ VerifyPaymentRequest(p, u, ref)

\* the poll's decision once the provider has answered the verify call
PollDecision(pr, vr) ==
    IF vr.kind = "success"
      THEN IF PollAmountMatches(vr.amount, pr.tsnap.amount)
             THEN "credit" ELSE "mismatch"
      ELSE "not_success"

\* VerifyPaymentView.get from the provider's answer to the read of the
\* wallet row (transaction.wallet, read without a lock)
PollVerifyResponse(p, vr) ==
    LET pr == [procs[p] EXCEPT !.verified =
                 IF vr.kind = "success" THEN vr.amount ELSE 0]
        d == PollDecision(pr, vr)
    IN /\ pr.pc = "poll_verify"
       /\ CASE vr.kind = "exception" ->
                 /\ Proceed(p,
                       Finished(pr, <<500, "Failed to verify with Paystack">>))
                 /\ UNCHANGED txns
            [] vr.kind # "exception" /\ d = "credit" ->
                 /\ Proceed(p,
                       [pr EXCEPT !.pc = "poll_credit", !.auth = vr.auth,
                                  !.wsnap = wallets[pr.tsnap.wallet]])
                 /\ UNCHANGED txns
            [] vr.kind # "exception" /\ d = "mismatch" ->
                 /\ txns' = [txns EXCEPT ![pr.ref] = MarkFailed(pr.tsnap)]
                 /\ Proceed(p,
                       Finished(pr, <<400, "Payment amount mismatch">>))
            [] vr.kind # "exception" /\ d = "not_success" ->
                 /\ Proceed(p, Finished(pr, <<200, "Payment status">>))
                 /\ UNCHANGED txns
       /\ UNCHANGED <<pins, wallets, lock, beneficiaries, analytics, cards, credited, started>>

\* the SavedCard table after a verified success carrying authorization auth
SaveCard(cs, u, auth) ==
    IF auth = NoAuth \/ (\E i \in DOMAIN cs : cs[i].authorization_code = auth)
      THEN cs
      ELSE Append(cs, [user |-> u, authorization_code |-> auth,
                       is_default |-> ~(\E i \in DOMAIN cs : cs[i].user = u),
                       is_active |-> TRUE])

\* VerifyPaymentView.get: wallet.save(), transaction.save(), the saved card
\* and the commit
PollCredit(p) ==
    LET pr == procs[p]
        w == pr.tsnap.wallet
    IN /\ pr.pc = "poll_credit"
       /\ lock[w] = 0
       /\ wallets' = [wallets EXCEPT ![w] = CreditedWallet(pr.wsnap, pr.tsnap.amount)]
       /\ txns' = [txns EXCEPT ![pr.ref] = ReconcileCompleted(pr.tsnap, pr.wsnap.balance)]
       /\ credited' = [credited EXCEPT ![pr.ref] = @ + 1]
       /\ cards' = SaveCard(cards, pr.user, pr.auth)
       /\ Proceed(p,
             Finished(pr, <<200, "Payment verified and wallet credited">>))
       /\ UNCHANGED <<pins, lock, beneficiaries, analytics, started>>

(* -------------------------- ChargeSavedCardView ----------------------- *)
\* SavedCard.objects.get(id=card_id, user=user, is_active=True) finds a row
CardFound(cs, u, card_id) ==
    /\ card_id \in DOMAIN cs
    /\ cs[card_id].user = u
    /\ cs[card_id].is_active

\* ChargeSavedCardView.post up to the provider call: the serializer, the
\* card and the wallet as loaded by the view, create_pending_transaction
ChargeSavedCard(p, u, card_id, amount) ==
    /\ CanStart(p)
    /\ started' = started + 1
    /\ LET me == [IdleProc EXCEPT !.op = "charge", !.user = u, !.amount = amount,
                                  !.card = card_id]
           t == PendingTxn(u, amount, wallets[u].balance)
           found == CardFound(cards, u, card_id)
       IN IF amount < MinTopUp
            THEN /\ Proceed(p, Finished(me, <<400, "Validation failed">>))
                 /\ UNCHANGED <<txns, credited>>
          ELSE IF ~found
            THEN /\ Proceed(p,
                       Finished(me, <<404, "Card not found or inactive">>))
                 /\ UNCHANGED <<txns, credited>>
          ELSE IF ~wallets[u].exists
            THEN /\ Proceed(p, Finished(me, <<404, "Wallet not found">>))
                 /\ UNCHANGED <<txns, credited>>
          ELSE /\ lock[u] = 0
               /\ txns' = Append(txns, t)
               /\ credited' = Append(credited, 0)
               /\ Proceed(p,
                     [me EXCEPT !.pc = "charge_call", !.ref = Len(txns) + 1,
                                !.tsnap = t, !.wsnap = wallets[u]])
    /\ UNCHANGED <<pins, wallets, lock, beneficiaries, analytics, cards>>

\* the row a successful charge writes: the pending object, completed, with
\* the snapshots of the wallet object the view holds
ChargeCompleted(t, amount, before) ==
    [t EXCEPT !.status = "completed", !.transaction_type = "credit",
              !.transaction_category = "deposit", !.balance_before = before,
              !.balance_after = before + amount, !.completed_at = Now]

\* the provider's answer to transaction/charge_authorization
ChargeResponse(p, outcome) ==
    LET pr == procs[p]
        u == pr.user
    IN /\ pr.pc = "charge_call"
       /\ IF outcome = "success"
            THEN /\ lock[u] = 0
                 /\ wallets' = [wallets EXCEPT ![u] = CreditedWallet(pr.wsnap, pr.amount)]
                 /\ txns' = [txns EXCEPT ![pr.ref] =
                               ChargeCompleted(pr.tsnap, pr.amount, pr.wsnap.balance)]
                 /\ credited' = [credited EXCEPT ![pr.ref] = @ + 1]
                 /\ Proceed(p,
                       Finished(pr, <<200, "Wallet topped up successfully">>))
            ELSE \* a reported failure, or an exception of the HTTP call
                 /\ txns' = [txns EXCEPT ![pr.ref] = MarkFailed(pr.tsnap)]
                 /\ Proceed(p,
                       Finished(pr, IF outcome = "failed"
                                      THEN <<400, "Failed to charge card">>
                                      ELSE <<500, "Payment processing error">>))
                 /\ UNCHANGED <<wallets, credited>>
       /\ UNCHANGED <<pins, lock, beneficiaries, analytics, cards, started>>

(* ----------------------------- beneficiaries -------------------------- *)
\* AddBeneficiaryView.post up to get_or_create: a missing row is created
\* (and nothing more is saved); an existing row is read, without a lock
AddBeneficiary(p, u, b) ==
    LET me == [IdleProc EXCEPT !.op = "add_beneficiary", !.user = u, !.other = b]
        row == beneficiaries[<<u, b>>]
    IN /\ CanStart(p)
       /\ started' = started + 1
       /\ IF b = u
            THEN /\ Proceed(p, Finished(me, <<400, "Cannot add yourself as beneficiary">>))
                 /\ UNCHANGED beneficiaries
          ELSE IF ~row.exists
            THEN /\ beneficiaries' = [beneficiaries EXCEPT ![<<u, b>>] =
                                        [NoBeneficiary EXCEPT !.exists = TRUE]]
                 /\ Proceed(p, Finished(me, <<201, "Beneficiary added successfully">>))
            ELSE /\ Proceed(p, [me EXCEPT !.pc = "benef_save", !.bsnap = row])
                 /\ UNCHANGED beneficiaries
       /\ UNCHANGED <<pins, wallets, txns, lock, analytics, cards, credited>>

\* AddBeneficiaryView.post: beneficiary_contact.nickname = nickname;
\* beneficiary_contact.save() writes the whole row from the object read
AddBeneficiarySave(p) ==
    LET pr == procs[p]
    IN /\ pr.pc = "benef_save"
       /\ beneficiaries' = [beneficiaries EXCEPT ![<<pr.user, pr.other>>] = pr.bsnap]
       /\ Proceed(p, Finished(pr, <<201, "Beneficiary added successfully">>))
       /\ UNCHANGED <<pins, wallets, txns, lock, analytics, cards, credited, started>>

(* ----------------------------- saved cards --------------------------- *)
\* what is left of a SavedCard row after its deletion (ids are not reused)
NoCard == [user |-> 0, authorization_code |-> NoAuth, is_default |-> FALSE,
           is_active |-> FALSE]

\* (mutant) a serializer that lists authorization_code among its fields
SavedCardSerializer_WithCode(cs, i) ==
    [id |-> i, is_default |-> cs[i].is_default,
     authorization_code |-> cs[i].authorization_code]

\* SavedCardSerializer: of its fields (id, card_type, last4, exp_month,
\* exp_year, bank, nickname, is_default, card_display, created_at,
\* last_used_at) the ones the model holds
SavedCardSerializer(cs, i) ==
    [id |-> i, is_default |-> cs[i].is_default]

\* ListSavedCardsView.get: the user's active cards, serialized
ListedCards(cs, u) ==
    {SavedCardSerializer(cs, i) :
        i \in {j \in DOMAIN cs : cs[j].user = u /\ cs[j].is_active}}

ListSavedCards(p, u) ==
    /\ CanStart(p)
    /\ started' = started + 1
    /\ Proceed(p, Finished([IdleProc EXCEPT !.op = "list_cards", !.user = u,
                                            !.data = ListedCards(cards, u)],
                           <<200, "success">>))
    /\ UNCHANGED <<pins, wallets, txns, lock, beneficiaries, analytics, cards, credited>>

\* DeleteSavedCardView.delete
DeleteSavedCard(p, u, card_id) ==
    LET me == [IdleProc EXCEPT !.op = "delete_card", !.user = u, !.card = card_id]
        found == card_id \in DOMAIN cards /\ cards[card_id].user = u
    IN /\ CanStart(p)
       /\ started' = started + 1
       /\ IF found
            THEN /\ cards' = [cards EXCEPT ![card_id] = NoCard]
                 /\ Proceed(p, Finished(me, <<200, "Card deleted successfully">>))
            ELSE /\ UNCHANGED cards
                 /\ Proceed(p, Finished(me, <<404, "Card not found">>))
       /\ UNCHANGED <<pins, wallets, txns, lock, beneficiaries, analytics, credited>>

\* SavedCard.objects.filter(user=request.user).update(is_default=False)
ClearDefaults(cs, u) ==
    [i \in DOMAIN cs |->
        IF cs[i].user = u THEN [cs[i] EXCEPT !.is_default = FALSE] ELSE cs[i]]

\* SetDefaultCardView.patch, its first statement: the user's cards lose
\* their default flag before the named card is looked up
SetDefaultCard(p, u, card_id) ==
    /\ CanStart(p)
    /\ started' = started + 1
    /\ cards' = ClearDefaults(cards, u)
    /\ Proceed(p, [IdleProc EXCEPT !.pc = "default_get", !.op = "set_default",
                                   !.user = u, !.card = card_id])
    /\ UNCHANGED <<pins, wallets, txns, lock, beneficiaries, analytics, credited>>

\* SetDefaultCardView.patch from the lookup of the named card: the card is
\* saved as the default, or SavedCard.DoesNotExist is answered 404
SetDefaultGet(p) ==
    LET pr == procs[p]
        found == pr.card \in DOMAIN cards /\ cards[pr.card].user = pr.user
    IN /\ pr.pc = "default_get"
       /\ IF found
            THEN /\ cards' = [cards EXCEPT ![pr.card].is_default = TRUE]
                 /\ Proceed(p, Finished(pr, <<200, "Default card updated">>))
            ELSE /\ UNCHANGED cards
                 /\ Proceed(p, Finished(pr, <<404, "Card not found">>))
       /\ UNCHANGED <<pins, wallets, txns, lock, beneficiaries, analytics, credited,
                      started>>

(* ------------------------------ requests ------------------------------ *)
Events == {"charge.success", "charge.failed"}
\* references a caller may name: none, a stored one, one not stored
Refs == 0..(Len(txns) + 1)

Next ==
    \/ \E p \in Procs, u \in Users, r \in Users, a \in Amounts : SendMoney(p, u, r, a)
    \/ \E p \in Procs : TransferLockRecipient(p)
    \/ \E p \in Procs : TransferLockSender(p)
    \/ \E p \in Procs : TransferDeadlock(p)
    \/ \E p \in Procs, u \in Users, b \in BillTypes, a \in Amounts : BillPayment(p, u, b, a)
    \/ \E p \in Procs : BillLockAndDebit(p)
    \/ \E u \in Users, a \in Amounts : AddMoneyToWallet(u, a)
    \/ \E p \in Procs, u \in Users, a \in Amounts : TopUpInitiate(p, u, a)
    \/ \E p \in Procs, o \in CallOutcomes : TopUpResponse(p, o)
    \/ \E p \in Procs, secret \in BOOLEAN, sigOK \in BOOLEAN, e \in Events,
          ref \in Refs, pay \in Amounts : PaystackWebhook(p, secret, sigOK, e, ref, pay)
    \/ \E p \in Procs, vr \in VerifyResponses : WebhookVerifyResponse(p, vr)
    \/ \E p \in Procs : WebhookCredit(p)
    \/ \E p \in Procs, u \in Users, ref \in Refs : VerifyPayment(p, u, ref)
    \/ \E p \in Procs, vr \in VerifyResponses : PollVerifyResponse(p, vr)
    \/ \E p \in Procs : PollCredit(p)
    \/ \E p \in Procs, u \in Users, c \in 1..(Len(cards) + 1), a \in Amounts :
          ChargeSavedCard(p, u, c, a)
    \/ \E p \in Procs, o \in CallOutcomes : ChargeResponse(p, o)

Spec == Init /\ [][Next]_vars

\* transfers alone
NextTransfers ==
    \/ \E p \in Procs, u \in Users, r \in Users, a \in Amounts : SendMoney(p, u, r, a)
    \/ \E p \in Procs : TransferLockRecipient(p)
    \/ \E p \in Procs : TransferLockSender(p)
    \/ \E p \in Procs : TransferDeadlock(p)

SpecTransfers == Init /\ [][NextTransfers]_vars

\* WalletAdmin: an administrator freezes a wallet (the change form is loaded
\* and saved at once; the UPDATE waits for the row lock)
AdminFreeze(u) ==
    /\ wallets[u].exists
    /\ ~wallets[u].is_frozen
    /\ lock[u] = 0
    /\ wallets' = [wallets EXCEPT ![u] = [wallets[u] EXCEPT !.is_frozen = TRUE]]
    /\ UNCHANGED <<pins, txns, lock, procs, response, beneficiaries, analytics, cards,
                   credited, started>>

\* wallets a transfer may meet: none, active with 100.00 or 10.00, frozen,
\* inactive
WalletCases ==
    {NoWallet}
    \cup {[exists |-> TRUE, balance |-> b, is_active |-> TRUE, is_frozen |-> FALSE]
             : b \in {10000, 1000}}
    \cup {[exists |-> TRUE, balance |-> 10000, is_active |-> TRUE, is_frozen |-> TRUE],
          [exists |-> TRUE, balance |-> 10000, is_active |-> FALSE, is_frozen |-> FALSE]}

\* amounts a transfer request may carry: below the minimum, the minimum,
\* 30.00, 100.00, 100.01, the maximum, above the maximum
TransferAmounts ==
    {MinTransfer - 1, MinTransfer, 3000, 10000, 10001, MaxTransfer, MaxTransfer + 1}

InitTransferCases ==
    /\ wallets \in [Users -> WalletCases]
    /\ txns = <<>>
    /\ lock = [u \in Users |-> 0]
    /\ procs = [p \in Procs |-> IdleProc]
    /\ response = ResponseOf(IdleProc)
    /\ beneficiaries = [pair \in Users \X Users |-> NoBeneficiary]
    /\ analytics = [u \in Users |-> NoAnalytics]
    /\ cards = <<>>
    /\ credited = <<>>
    /\ started = 0
    /\ pins = [u \in Users |-> NoPinRow]

\* transfers between wallets of every kind, and an administrator
NextTransferCases ==
    \/ \E p \in Procs, u \in Users, r \in Users, a \in TransferAmounts :
          SendMoney(p, u, r, a)
    \/ \E p \in Procs : TransferLockRecipient(p)
    \/ \E p \in Procs : TransferLockSender(p)
    \/ \E p \in Procs : TransferDeadlock(p)
    \/ \E u \in Users : AdminFreeze(u)

SpecTransferCases == InitTransferCases /\ [][NextTransferCases]_vars

\* the gateway flows alone: top-up initiation and its two reconciliations
NextReconcile ==
    \/ \E p \in Procs, u \in Users, a \in Amounts : TopUpInitiate(p, u, a)
    \/ \E p \in Procs, o \in CallOutcomes : TopUpResponse(p, o)
    \/ \E p \in Procs, secret \in BOOLEAN, sigOK \in BOOLEAN, e \in Events,
          ref \in Refs, pay \in Amounts : PaystackWebhook(p, secret, sigOK, e, ref, pay)
    \/ \E p \in Procs, vr \in VerifyResponses : WebhookVerifyResponse(p, vr)
    \/ \E p \in Procs : WebhookCredit(p)
    \/ \E p \in Procs, u \in Users, ref \in Refs : VerifyPayment(p, u, ref)
    \/ \E p \in Procs, vr \in VerifyResponses : PollVerifyResponse(p, vr)
    \/ \E p \in Procs : PollCredit(p)

SpecReconcile == Init /\ [][NextReconcile]_vars

\* the gateway flows on a wallet that has a completed transaction already
SpecHistory == InitHistory /\ [][NextReconcile]_vars

\* a user who has topped up before: one completed and one pending top-up
\* in the ledger, and the card that the completed one saved
InitCharge ==
    /\ wallets = [u \in Users |->
                    [exists |-> TRUE, balance |-> InitialBalance,
                     is_active |-> TRUE, is_frozen |-> FALSE]]
    /\ txns \in HistoryLedgers
    /\ lock = [u \in Users |-> 0]
    /\ procs = [p \in Procs |-> IdleProc]
    /\ response = ResponseOf(IdleProc)
    /\ beneficiaries = [pair \in Users \X Users |-> NoBeneficiary]
    /\ analytics = [u \in Users |-> NoAnalytics]
    /\ cards = SaveCard(<<>>, 1, "AUTH_a")
    /\ credited = <<1, 0>>
    /\ started = 0
    /\ pins = [u \in Users |-> NoPinRow]

\* charges of the saved card beside the other flows that write the wallet
NextCharge ==
    \/ \E p \in Procs, u \in Users, c \in 1..(Len(cards) + 1), a \in Amounts :
          ChargeSavedCard(p, u, c, a)
    \/ \E p \in Procs, o \in CallOutcomes : ChargeResponse(p, o)
    \/ \E p \in Procs, u \in Users, b \in BillTypes, a \in Amounts : BillPayment(p, u, b, a)
    \/ \E p \in Procs : BillLockAndDebit(p)
    \/ \E p \in Procs, u \in Users, ref \in Refs : VerifyPayment(p, u, ref)
    \/ \E p \in Procs, vr \in VerifyResponses : PollVerifyResponse(p, vr)
    \/ \E p \in Procs : PollCredit(p)

SpecCharge == InitCharge /\ [][NextCharge]_vars

\* deposits on wallets of every kind (active, frozen, inactive), beside
\* bill payments; a wallet keeps the flags it starts with
InitDeposit ==
    /\ wallets \in [Users -> {w \in WalletCases : w.exists}]
    /\ txns = <<>>
    /\ lock = [u \in Users |-> 0]
    /\ procs = [p \in Procs |-> IdleProc]
    /\ response = ResponseOf(IdleProc)
    /\ beneficiaries = [pair \in Users \X Users |-> NoBeneficiary]
    /\ analytics = [u \in Users |-> NoAnalytics]
    /\ cards = <<>>
    /\ credited = <<>>
    /\ started = 0
    /\ pins = [u \in Users |-> NoPinRow]

NextDeposit ==
    \/ \E u \in Users, a \in Amounts : AddMoneyToWallet(u, a)
    \/ \E p \in Procs, u \in Users, b \in BillTypes, a \in {1000, 3000} :
          BillPayment(p, u, b, a)
    \/ \E p \in Procs : BillLockAndDebit(p)

SpecDeposit == InitDeposit /\ [][NextDeposit]_vars

\* transfers whose rows carry the references the generator draws: few
\* seconds and few random parts, so that draws collide
Seconds == {1, 2}
Uids == {1, 2}

InitReferences ==
    /\ wallets = [u \in Users |->
                    [exists |-> TRUE, balance |-> InitialBalance,
                     is_active |-> TRUE, is_frozen |-> FALSE]]
    /\ txns = <<>>
    /\ lock = [u \in Users |-> 0]
    /\ procs = [p \in Procs |-> IdleProc]
    /\ response = ResponseOf(IdleProc)
    /\ beneficiaries = [pair \in Users \X Users |-> NoBeneficiary]
    /\ analytics = [u \in Users |-> NoAnalytics]
    /\ cards = <<>>
    /\ credited = <<>>
    /\ started = 0
    /\ pins = [u \in Users |-> NoPinRow]

NextReferences ==
    \/ \E p \in Procs, u \in Users, r \in Users, a \in Amounts : SendMoney(p, u, r, a)
    \/ \E p \in Procs : TransferLockRecipient(p)
    \/ \E p \in Procs, sec \in Seconds, uid1 \in Uids, uid2 \in Uids :
          TransferCommit(p, generate_transaction_reference(sec, uid1),
                            generate_transaction_reference(sec, uid2))
    \/ \E p \in Procs : TransferDeadlock(p)

SpecReferences == InitReferences /\ [][NextReferences]_vars

\* user 1 has saved user 2 as a beneficiary and has not sent anything yet
InitBeneficiaries ==
    /\ wallets = [u \in Users |->
                    [exists |-> TRUE, balance |-> InitialBalance,
                     is_active |-> TRUE, is_frozen |-> FALSE]]
    /\ txns = <<>>
    /\ lock = [u \in Users |-> 0]
    /\ procs = [p \in Procs |-> IdleProc]
    /\ response = ResponseOf(IdleProc)
    /\ beneficiaries = [pair \in Users \X Users |->
                          IF pair = <<1, 2>>
                            THEN [NoBeneficiary EXCEPT !.exists = TRUE]
                            ELSE NoBeneficiary]
    /\ analytics = [u \in Users |-> NoAnalytics]
    /\ cards = <<>>
    /\ credited = <<>>
    /\ started = 0
    /\ pins = [u \in Users |-> NoPinRow]

\* transfers beside requests that add a beneficiary
NextBeneficiaries ==
    \/ \E p \in Procs, u \in Users, r \in Users, a \in Amounts : SendMoney(p, u, r, a)
    \/ \E p \in Procs : TransferLockRecipient(p)
    \/ \E p \in Procs : TransferLockSender(p)
    \/ \E p \in Procs : TransferDeadlock(p)
    \/ \E p \in Procs, u \in Users, b \in Users : AddBeneficiary(p, u, b)
    \/ \E p \in Procs : AddBeneficiarySave(p)

SpecBeneficiaries == InitBeneficiaries /\ [][NextBeneficiaries]_vars

\* a user with two saved cards, the first one the default, and a pending
\* top-up whose verification may bring a third
InitCards ==
    /\ wallets = [u \in Users |->
                    [exists |-> TRUE, balance |-> InitialBalance,
                     is_active |-> TRUE, is_frozen |-> FALSE]]
    /\ txns \in HistoryLedgers
    /\ lock = [u \in Users |-> 0]
    /\ procs = [p \in Procs |-> IdleProc]
    /\ response = ResponseOf(IdleProc)
    /\ beneficiaries = [pair \in Users \X Users |-> NoBeneficiary]
    /\ analytics = [u \in Users |-> NoAnalytics]
    /\ cards = SaveCard(SaveCard(<<>>, 1, "AUTH_b"), 1, "AUTH_c")
    /\ credited = <<1, 0>>
    /\ started = 0
    /\ pins = [u \in Users |-> NoPinRow]

\* the card endpoints beside the poll, which saves cards
NextCards ==
    \/ \E p \in Procs, u \in Users : ListSavedCards(p, u)
    \/ \E p \in Procs, u \in Users, c \in 1..(Len(cards) + 1) : DeleteSavedCard(p, u, c)
    \/ \E p \in Procs, u \in Users, c \in 1..(Len(cards) + 1) : SetDefaultCard(p, u, c)
    \/ \E p \in Procs : SetDefaultGet(p)
    \/ \E p \in Procs, u \in Users, ref \in Refs : VerifyPayment(p, u, ref)
    \/ \E p \in Procs, vr \in VerifyResponses : PollVerifyResponse(p, vr)
    \/ \E p \in Procs : PollCredit(p)
    \/ \E p \in Procs, u \in Users, c \in 1..(Len(cards) + 1), a \in Amounts :
          ChargeSavedCard(p, u, c, a)
    \/ \E p \in Procs, o \in CallOutcomes : ChargeResponse(p, o)

SpecCards == InitCards /\ [][NextCards]_vars

\* the PINs that requests carry
PinInputs == {<<1, 2, 3, 4>>, <<4, 3, 2, 1>>}

\* PIN rows that SetTransactionPinView, verify_transaction_pin, the passing
\* of time and the administrator's is_active switch leave behind: no row, or
\* PIN 1234 with no failure, one, two, three and a running lockout, three
\* and a lockout that has run out, or none after such a lockout
PinCases ==
    {NoPinRow} \cup
    {[exists |-> TRUE, pin |-> make_password(<<1, 2, 3, 4>>), is_active |-> a,
      failed_attempts |-> c[1], locked_until |-> c[2]] :
        a \in BOOLEAN,
        c \in {<<0, "none">>, <<1, "none">>, <<2, "none">>, <<3, "future">>,
               <<3, "past">>, <<0, "past">>}}

InitPin ==
    /\ wallets = [u \in Users |->
                    [exists |-> TRUE, balance |-> InitialBalance,
                     is_active |-> TRUE, is_frozen |-> FALSE]]
    /\ txns = <<>>
    /\ lock = [u \in Users |-> 0]
    /\ procs = [p \in Procs |-> IdleProc]
    /\ response = ResponseOf(IdleProc)
    /\ beneficiaries = [pair \in Users \X Users |-> NoBeneficiary]
    /\ analytics = [u \in Users |-> NoAnalytics]
    /\ cards = <<>>
    /\ credited = <<>>
    /\ started = 0
    /\ pins \in {f \in [Users -> PinCases] : \A u \in Users : u # 1 => f[u] = NoPinRow}

\* transfers and bill payments with and without a PIN, beside requests that
\* set the PIN and the passing of time
NextPin ==
    \/ \E p \in Procs, u \in Users, pin \in PinInputs, c \in PinInputs :
          SetTransactionPin(p, u, pin, c)
    \/ \E p \in Procs, u \in Users, r \in Users, a \in Amounts,
          pin \in PinInputs \cup {NoPin} : SendMoneyRequest(p, u, r, a, pin)
    \/ \E p \in Procs, u \in Users, b \in BillTypes, a \in Amounts,
          pin \in PinInputs \cup {NoPin} : BillPaymentRequest(p, u, b, a, pin)
    \/ \E p \in Procs : PinSave(p)
    \/ \E p \in Procs : TransferLockRecipient(p)
    \/ \E p \in Procs : TransferLockSender(p)
    \/ \E p \in Procs : TransferDeadlock(p)
    \/ \E p \in Procs : BillLockAndDebit(p)
    \/ \E u \in Users : LockoutExpires(u)

SpecPin == InitPin /\ [][NextPin]_vars

\* credits of one transaction after which no further poll is followed
MaxCredits == 2

\* the client polls verify-payment again and again: the number of polls is
\* not bounded (only the number of credits of one transaction is), and the
\* ledger has a pending top-up from the start
PollAgain(p, u, ref) ==
    /\ \A q \in Procs : q < p => procs[q].pc # "idle"
    /\ \A i \in DOMAIN credited : credited[i] < MaxCredits
    /\ VerifyPaymentRequest(p, u, ref)
    /\ UNCHANGED started

\* the provider's final answers to transaction/verify
FinalResponses == {vr \in VerifyResponses : vr.kind # "exception"}

NextPollRetry ==
    \/ \E p \in Procs, u \in Users, ref \in Refs : PollAgain(p, u, ref)
    \/ \E p \in Procs, vr \in VerifyResponses : PollVerifyResponse(p, vr)
    \/ \E p \in Procs : PollCredit(p)

\* the owner polls for a reference that is still pending
OwnerPollsPending ==
    \E p \in Procs, ref \in DOMAIN txns :
        /\ txns[ref].status = "pending"
        /\ PollAgain(p, txns[ref].wallet, ref)

\* reconciliation by poll alone: the owner keeps polling while a reference
\* is pending, a verify call is not left without a final answer for ever,
\* and a request that has its answer runs to its end
SpecPollRetry ==
    /\ InitHistory
    /\ [][NextPollRetry]_vars
    /\ WF_vars(OwnerPollsPending)
    /\ SF_vars(\E p \in Procs, vr \in FinalResponses : PollVerifyResponse(p, vr))
    /\ WF_vars(\E p \in Procs : PollCredit(p))

(* ====================================================================== *)
(*                               claims                                   *)
(* ====================================================================== *)

\* signed amount of the completed rows of wallet u among the first n rows
RECURSIVE LedgerSum(_, _)
LedgerSum(u, n) ==
    IF n = 0 THEN 0
    ELSE LedgerSum(u, n - 1)
         + (IF txns[n].wallet = u /\ txns[n].status = "completed"
              THEN IF txns[n].transaction_type = "credit"
                     THEN txns[n].amount ELSE 0 - txns[n].amount
              ELSE 0)

\* C1: in every reachable state every wallet's balance is >= 0
C1_BalanceNonNegative ==
    \A u \in Users : wallets[u].balance >= 0

\* C2: in every reachable state every wallet's balance is its initial balance
\* plus its completed credits minus its completed debits
C2_BalanceMatchesLedger ==
    \A u \in Users : wallets[u].balance = InitialBalance + LedgerSum(u, Len(txns))

\* C3: a wallet is credited on behalf of one transaction at most once,
\* however webhooks and polls for its reference interleave
C3_CreditedAtMostOnce ==
    \A i \in DOMAIN credited : credited[i] <= 1

\* C5: once a transaction is completed or failed no step changes its status
\* or credits a wallet on its behalf
C5_TerminalStatesFinal ==
    [][\A i \in DOMAIN txns :
          txns[i].status \in {"completed", "failed"}
            => /\ txns'[i].status = txns[i].status
               /\ credited'[i] = credited[i]]_vars

\* C8: no reachable state has two transfers each holding one wallet's row
\* lock while waiting for the lock the other holds
C8_NoTransferDeadlock ==
    ~ \E p \in Procs, q \in Procs : WaitsFor(p, q) /\ WaitsFor(q, p)

\* responses of a request that was turned away before reconciling
RefusedResponses ==
    {<<401, "Unauthorized">>, <<403, "Unauthorized">>,
     <<200, "Event received but ignored">>}

\* C4: a webhook or poll that names a reference whose transaction is already
\* completed never goes on to verification; it returns at once, answers
\* success (unless it is refused as unauthorized or as another event), and
\* changes no wallet, transaction or card
C4_ReconcileIdempotent ==
    [][started' = started + 1 =>
         /\ \A p \in Procs :
               (/\ procs'[p] # procs[p]
                /\ procs'[p].op \in {"webhook", "poll"}
                /\ procs'[p].ref \in DOMAIN txns)
               => txns[procs'[p].ref].status # "completed"
         /\ (/\ procs' = procs
             /\ response'.op \in {"webhook", "poll"}
             /\ response'.ref \in DOMAIN txns
             /\ txns[response'.ref].status = "completed")
            => /\ txns' = txns /\ wallets' = wallets
               /\ credited' = credited /\ cards' = cards
               /\ (response'.resp \notin RefusedResponses
                     => response'.resp = <<200, "Transaction already completed">>)]_vars

\* a second reconciliation has answered "already completed" for a transaction
\* that was credited once
C4_Witness ==
    /\ response.resp = <<200, "Transaction already completed">>
    /\ response.ref \in DOMAIN txns
    /\ txns[response.ref].status = "completed"
    /\ credited[response.ref] = 1

\* C6: when the provider's verified amount differs from the stored amount the
\* reconciliation (webhook or poll) does not go on to credit: it returns with
\* the transaction failed, no wallet changed and nothing credited
C6_MismatchFails ==
    [][\A p \in Procs :
          (/\ procs[p].pc \in {"wh_verify", "poll_verify"}
           /\ procs'[p] # procs[p])
          => /\ procs'[p].pc # "idle"
                  => procs'[p].verified = procs[p].tsnap.amount
             /\ (/\ procs'[p].pc = "idle"
                 /\ response'.verified # 0
                 /\ response'.verified # procs[p].tsnap.amount)
                => /\ txns'[procs[p].ref].status = "failed"
                   /\ wallets' = wallets
                   /\ credited' = credited]_vars

\* a reconciliation has returned on a verified amount other than the stored
\* one, the transaction is failed and its wallet holds what it held
C6_Witness ==
    /\ response.op \in {"webhook", "poll"}
    /\ response.verified # 0
    /\ response.ref \in DOMAIN txns
    /\ response.verified # txns[response.ref].amount
    /\ txns[response.ref].status = "failed"
    /\ wallets[txns[response.ref].wallet].balance = InitialBalance

\* a request record without the amount its notification carried
WithoutPayload(pr) == [pr EXCEPT !.pay = 0]

\* C7: what the webhook does with a signed charge.success notification is the
\* same for any two amounts the notification may carry: on receipt, and on
\* every answer the provider may give to the verify call
C7_WebhookIgnoresPayload ==
    /\ \A ref \in Refs, a1 \in Amounts, a2 \in Amounts :
          WithoutPayload(WebhookReceived(TRUE, TRUE, "charge.success", ref, a1))
            = WithoutPayload(WebhookReceived(TRUE, TRUE, "charge.success", ref, a2))
    /\ \A p \in Procs :
          procs[p].pc = "wh_verify"
            => \A vr \in VerifyResponses, a \in Amounts :
                  WebhookDecision([procs[p] EXCEPT !.pay = a], vr)
                    = WebhookDecision(procs[p], vr)

\* a webhook is about to credit although its notification carried an amount
\* other than the stored one
C7_Witness ==
    \E p \in Procs :
        /\ procs[p].pc = "wh_credit"
        /\ procs[p].pay # procs[p].tsnap.amount

\* amounts of the completed transfer rows among the first n rows that credit
\* user u (Received) or debit user u (Sent)
RECURSIVE Received(_, _)
Received(u, n) ==
    IF n = 0 THEN 0
    ELSE Received(u, n - 1)
         + (IF /\ txns[n].transaction_category = "transfer"
               /\ txns[n].transaction_type = "credit"
               /\ txns[n].status = "completed"
               /\ txns[n].recipient = u
              THEN txns[n].amount ELSE 0)

RECURSIVE Sent(_, _)
Sent(u, n) ==
    IF n = 0 THEN 0
    ELSE Sent(u, n - 1)
         + (IF /\ txns[n].transaction_category = "transfer"
               /\ txns[n].transaction_type = "debit"
               /\ txns[n].status = "completed"
               /\ txns[n].sender = u
              THEN txns[n].amount ELSE 0)

\* each wallet's balance is its initial balance plus the transfers it received
\* minus the transfers it sent
TransferBalancesAddUp ==
    \A u \in Users :
        wallets[u].balance
          = InitialBalance + Received(u, Len(txns)) - Sent(u, Len(txns))

\* C9 (as stated): under any interleaving of transfers the balances add up, and
\* a transfer that has read a balance it is going to update holds both
\* wallets' row locks
C9_ReadsUnderBothLocks ==
    /\ TransferBalancesAddUp
    /\ \A p \in Procs :
          procs[p].pc = "xfer_lock_sender"
            => lock[procs[p].other] = p /\ lock[procs[p].user] = p

\* C9: under any interleaving of transfers the balances add up, and a transfer
\* reads each balance it updates under that wallet's own row lock: the
\* recipient's balance it holds while it waits for the sender's lock is the
\* one stored, and the row is locked by it
C9_TransfersLoseNoUpdate ==
    /\ TransferBalancesAddUp
    /\ \A p \in Procs :
          procs[p].pc = "xfer_lock_sender"
            => /\ lock[procs[p].other] = p
               /\ procs[p].rsnap = wallets[procs[p].other]

\* a transfer waits for its sender's lock while another transfer has already
\* changed that sender's balance since the view loaded it
C9_Witness ==
    \E p \in Procs :
        /\ procs[p].pc = "xfer_lock_sender"
        /\ procs[p].wsnap.balance # wallets[procs[p].user].balance
        /\ Len(txns) >= 2

\* C10: every completed transaction has balance_after = balance_before + amount
\* (credit) or balance_before - amount (debit)
C10_CompletedSnapshots ==
    \A i \in DOMAIN txns :
        txns[i].status = "completed"
          => txns[i].balance_after
               = IF txns[i].transaction_type = "credit"
                   THEN txns[i].balance_before + txns[i].amount
                   ELSE txns[i].balance_before - txns[i].amount

\* a top-up completed by a reconciliation, beside a completed debit
C10_Witness ==
    /\ \E i \in DOMAIN txns :
          /\ txns[i].status = "completed"
          /\ txns[i].transaction_category = "deposit"
          /\ credited[i] >= 1
          /\ txns[i].balance_after = txns[i].balance_before + txns[i].amount
    /\ \E j \in DOMAIN txns :
          /\ txns[j].status = "completed"
          /\ txns[j].transaction_type = "debit"

\* row i is the most recently completed transaction of wallet u
LatestCompleted(u, i) ==
    /\ txns[i].wallet = u
    /\ txns[i].status = "completed"
    /\ \A j \in DOMAIN txns :
          (txns[j].wallet = u /\ txns[j].status = "completed")
            => txns[j].completed_at <= txns[i].completed_at

\* C11: in every reachable state each wallet's balance is the balance_after of
\* its most recently completed transaction, when it has one
C11_BalanceIsLatestAfter ==
    \A u \in Users : \A i \in DOMAIN txns :
        LatestCompleted(u, i) => wallets[u].balance = txns[i].balance_after

\* rows i and i + 1 are the debit and the credit of one transfer
TransferPair(i) ==
    /\ i \in DOMAIN txns /\ i + 1 \in DOMAIN txns
    /\ txns[i].transaction_category = "transfer"
    /\ txns[i + 1].transaction_category = "transfer"
    /\ txns[i].transaction_type = "debit"
    /\ txns[i + 1].transaction_type = "credit"
    /\ txns[i].status = "completed" /\ txns[i + 1].status = "completed"
    /\ txns[i].wallet = txns[i].sender
    /\ txns[i + 1].wallet = txns[i + 1].recipient
    /\ txns[i].sender = txns[i + 1].sender
    /\ txns[i].recipient = txns[i + 1].recipient
    /\ txns[i].amount = txns[i + 1].amount

\* C12: in every reachable state, also after aborted transfers, the transfer
\* rows are completed pairs: each debit on the sender's wallet is followed by
\* its credit on the recipient's wallet with the same amount, and each credit
\* follows its debit
C12_TransferRowsPaired ==
    \A i \in DOMAIN txns :
        txns[i].transaction_category = "transfer"
          => IF txns[i].transaction_type = "debit"
               THEN TransferPair(i) ELSE TransferPair(i - 1)

\* one transfer has written its pair and a later one has failed in
\* process_transfer, leaving no row
C12_Witness ==
    /\ Len(txns) = 2
    /\ TransferPair(1)
    /\ started = 2
    /\ response.op = "transfer"
    /\ response.resp = <<400, "Insufficient balance or wallet is frozen">>

\* worker p commits a transfer in this step
TransferCommits(p) ==
    /\ procs[p].pc = "xfer_lock_sender"
    /\ procs'[p].pc = "idle"
    /\ Len(txns') = Len(txns) + 2

\* C13: a transfer that succeeds goes from a wallet to a different one,
\* decreases the sender's stored balance by exactly the amount and increases
\* the recipient's by exactly the amount, writes two completed rows, and
\* returns the two balances as stored
C13_TransferMovesExactly ==
    [][\A p \in Procs :
          TransferCommits(p)
            => LET s == procs[p].user
                   r == procs[p].other
                   x == procs[p].amount
               IN /\ s # r
                  /\ wallets'[s].balance = wallets[s].balance - x
                  /\ wallets'[r].balance = wallets[r].balance + x
                  /\ txns'[Len(txns) + 1].status = "completed"
                  /\ txns'[Len(txns) + 2].status = "completed"
                  /\ response'.resp = <<200, "Money sent successfully">>
                  /\ response'.balances
                       = <<wallets'[s].balance, wallets'[r].balance>>]_vars

\* A = 100.00 and B = 10.00 after a transfer of 30.00: A = 70.00, B = 40.00
C13_Witness ==
    /\ wallets[1].balance = 7000
    /\ wallets[2].balance = 4000
    /\ Len(txns) = 2
    /\ TransferPair(1)
    /\ txns[1].amount = 3000 /\ txns[1].balance_before = 10000
    /\ txns[2].balance_before = 1000
    /\ response.balances = <<7000, 4000>>

\* what a transfer may write
LedgerState == <<wallets, txns, beneficiaries, analytics>>

\* C14: a transfer whose recipient is its sender never reaches
\* process_transfer and no transfer row has the same sender and recipient; the
\* request that is answered "Cannot send money to yourself" changes no
\* wallet, transaction, beneficiary or analytics record
C14_SelfTransferRejected ==
    [][/\ \A p \in Procs :
             procs'[p].op = "transfer" => procs'[p].user # procs'[p].other
       /\ \A i \in DOMAIN txns' :
             txns'[i].transaction_category = "transfer"
               => txns'[i].sender # txns'[i].recipient
       /\ (/\ started' = started + 1
           /\ procs' = procs
           /\ response'.resp = <<400, "Cannot send money to yourself">>)
          => LedgerState' = LedgerState]_vars

\* a funded user's transfer to themselves has been turned away and their
\* wallet holds what it held
C14_Witness ==
    /\ response.resp = <<400, "Cannot send money to yourself">>
    /\ started = 1
    /\ wallets[1].balance = 10000 /\ wallets[1].is_active /\ ~wallets[1].is_frozen
    /\ txns = <<>>
    /\ \A pair \in Users \X Users : beneficiaries[pair] = NoBeneficiary

\* C15: a transfer whose amount exceeds the sender's stored balance never
\* commits (it fails and writes nothing), and a transfer that commits leaves
\* the sender's balance at the stored balance minus the amount, 0 when the
\* amount is the whole balance
C15_OverdrawingTransferFails ==
    [][\A p \in Procs :
          TransferCommits(p)
            => /\ procs[p].amount <= wallets[procs[p].user].balance
               /\ wallets'[procs[p].user].balance >= 0]_vars

\* a stored wallet that may take part in a transfer
Usable(w) == w.exists /\ w.is_active /\ ~w.is_frozen

\* C16: no transfer commits while the sender's stored wallet is frozen or
\* inactive or the recipient's stored wallet is missing, inactive or frozen,
\* also when the wallet was frozen after the request loaded it
C16_UnusableWalletsRejected ==
    [][\A p \in Procs :
          TransferCommits(p)
            => /\ Usable(wallets[procs[p].user])
               /\ Usable(wallets[procs[p].other])]_vars

\* amounts within 0.10 of 1.00 and of 100000.00, in minor units
BoundaryAmounts == (90..110) \cup (9999990..10000010)

\* C17: the serializer accepts an amount exactly when it is between 1.00 and
\* 100000.00; no transfer inside process_transfer and no transfer row carries
\* an amount outside these bounds; the request answered "Validation failed"
\* changes no wallet, transaction, beneficiary or analytics record
C17_TransferAmountBounds ==
    [][/\ \A a \in BoundaryAmounts \cup TransferAmounts :
             validate_amount(a) <=> (100 <= a /\ a <= 10000000)
       /\ \A p \in Procs :
             procs'[p].op = "transfer"
               => 100 <= procs'[p].amount /\ procs'[p].amount <= 10000000
       /\ \A i \in DOMAIN txns' :
             txns'[i].transaction_category = "transfer"
               => 100 <= txns'[i].amount /\ txns'[i].amount <= 10000000
       /\ (/\ started' = started + 1
           /\ procs' = procs
           /\ response'.op = "transfer"
           /\ response'.resp = <<400, "Validation failed">>)
          => LedgerState' = LedgerState /\ lock' = lock]_vars

\* a transfer of exactly 1.00 has succeeded and a later request has failed
\* validation
C17_Witness ==
    /\ Len(txns) = 2
    /\ TransferPair(1)
    /\ txns[1].amount = 100
    /\ response.resp = <<400, "Validation failed">>
    /\ started = 2

\* worker p creates the pending transaction of a top-up in this step
TopUpCreates(p) ==
    /\ procs[p].pc = "idle"
    /\ procs'[p].pc = "topup_call"

\* C18: initiating a top-up appends exactly one transaction, for the user's
\* wallet and the requested amount, with status pending, direction credit,
\* category deposit, completed_at null and balance_before = balance_after =
\* the wallet's stored balance, and changes no wallet and no other row; no
\* other step of the gateway flows adds a transaction
C18_TopUpCreatesPending ==
    [][/\ \A p \in Procs :
             TopUpCreates(p)
               => LET n == Len(txns) + 1
                      u == procs'[p].user
                  IN /\ Len(txns') = n
                     /\ \A i \in DOMAIN txns : txns'[i] = txns[i]
                     /\ procs'[p].ref = n
                     /\ txns'[n].wallet = u
                     /\ txns'[n].amount = procs'[p].amount
                     /\ txns'[n].status = "pending"
                     /\ txns'[n].transaction_type = "credit"
                     /\ txns'[n].transaction_category = "deposit"
                     /\ txns'[n].completed_at = 0
                     /\ txns'[n].balance_before = wallets[u].balance
                     /\ txns'[n].balance_after = wallets[u].balance
                     /\ wallets' = wallets
                     /\ credited'[n] = 0
       /\ Len(txns') # Len(txns) => \E p \in Procs : TopUpCreates(p)]_vars

\* a top-up has been initiated on a wallet that an earlier top-up had
\* credited: its pending row carries the credited balance twice
C18_Witness ==
    \E p \in Procs :
        /\ procs[p].pc = "topup_call"
        /\ wallets[procs[p].user].balance > InitialBalance
        /\ txns[procs[p].ref].status = "pending"
        /\ txns[procs[p].ref].balance_before = wallets[procs[p].user].balance
        /\ txns[procs[p].ref].balance_after = wallets[procs[p].user].balance

\* worker p receives the provider's answer to its verify call in this step
VerifyAnswered(p) ==
    /\ procs[p].pc \in {"wh_verify", "poll_verify"}
    /\ procs'[p] # procs[p]

\* the amount the provider verified in that answer (0: no verified success)
VerifiedIn(p) ==
    IF procs'[p].pc = "idle" THEN response'.verified ELSE procs'[p].verified

\* worker p commits the credit of a reconciliation in this step
ReconcileCommits(p) ==
    /\ procs[p].pc \in {"wh_credit", "poll_credit"}
    /\ procs'[p] # procs[p]

\* C19: when the provider verifies success with exactly the stored amount, the
\* webhook and the poll go on to credit (the payment is not classified as a
\* mismatch), and the credit completes the transaction, sets completed_at and
\* raises the wallet's balance by exactly the amount
C19_ExactAmountCredits ==
    [][\A p \in Procs :
          /\ (VerifyAnswered(p) /\ VerifiedIn(p) = procs[p].tsnap.amount)
                => /\ procs'[p].pc \in {"wh_credit", "poll_credit"}
                   /\ txns'[procs[p].ref].status # "failed"
          /\ ReconcileCommits(p)
                => LET w == procs[p].tsnap.wallet
                   IN /\ txns'[procs[p].ref].status = "completed"
                      /\ txns'[procs[p].ref].completed_at > 0
                      /\ wallets'[w].balance
                           = wallets[w].balance + procs[p].tsnap.amount]_vars

\* responses of a reconciliation whose verify call got no answer
ProviderUnreachable ==
    {<<500, "unhandled">>, <<500, "Failed to verify with Paystack">>}

\* C20: when the provider answers the verify call with a non-success status,
\* the webhook and the poll alike return with the transaction failed and no
\* wallet changed
C20_NonSuccessFails ==
    [][\A p \in Procs :
          (/\ VerifyAnswered(p)
           /\ procs'[p].pc = "idle"
           /\ VerifiedIn(p) = 0
           /\ response'.resp \notin ProviderUnreachable)
          => /\ txns'[procs[p].ref].status = "failed"
             /\ wallets' = wallets
             /\ credited' = credited]_vars

\* worker p gets the outcome of its initialize call in this step
InitializeAnswered(p) ==
    /\ procs[p].pc = "topup_call"
    /\ procs'[p] # procs[p]

\* C21: whenever the initialize call of a top-up fails (an error answer or
\* no answer at all), the request returns with its pending transaction
\* failed and no wallet changed
C21_FailedInitiationMarksFailed ==
    [][\A p \in Procs :
          (/\ InitializeAnswered(p)
           /\ response'.resp # <<200, "Payment initiation successful">>)
          => /\ txns'[procs[p].ref].status = "failed"
             /\ wallets' = wallets]_vars

\* C22: in every reachable state and every configuration (a secret configured
\* or not), a webhook whose signature header is not the digest of its body is
\* answered 401 on receipt and goes no further, whatever its event,
\* reference and amount
C22_BadSignatureRejected ==
    \A secret \in BOOLEAN, e \in Events, ref \in Refs, pay \in Amounts :
        LET rec == WebhookReceived(secret, FALSE, e, ref, pay)
        IN /\ rec.pc = "idle"
           /\ rec.resp = <<401, "Unauthorized">>

\* worker p's call to the provider (the verify call of a reconciliation, or
\* the charge of a saved card) raises in this step
ProviderCallRaises(p) ==
    /\ procs[p].pc \in {"wh_verify", "poll_verify", "charge_call"}
    /\ procs'[p].pc = "idle"
    /\ response'.resp \in {<<500, "unhandled">>,
                          <<500, "Failed to verify with Paystack">>,
                          <<500, "Payment processing error">>}

\* C23: a provider call that raises, in a reconciliation or in the charge of
\* a saved card, leaves the transaction row as it was (a pending row stays
\* pending) and leaves every balance unchanged
C23_TransientFailureKeepsPending ==
    [][\A p \in Procs :
          ProviderCallRaises(p)
          => /\ txns'[procs[p].ref] = txns[procs[p].ref]
             /\ wallets' = wallets]_vars

\* C24: under reconciliation by poll alone, with the owner polling again
\* while a reference is pending and the provider giving final answers,
\* every top-up row is eventually completed or failed
C24_PendingEventuallyResolved ==
    <>(\A i \in DOMAIN txns : txns[i].status \in {"completed", "failed"})

\* C25: a webhook that passed the signature step and names a reference no
\* transaction row carries is answered with status 200
C25_UnknownReferenceAcknowledged ==
    (/\ response.op = "webhook"
     /\ response.ref # 0
     /\ response.ref \notin DOMAIN txns
     /\ response.resp # <<401, "Unauthorized">>)
    => response.resp[1] = 200

\* the answer to an event the webhook does not handle
IgnoredAnswer == <<200, "Event received but ignored">>

\* C26: a correctly signed webhook whose event is not charge.success is
\* answered 200 on receipt and goes no further, whatever reference and
\* amount it names and whether or not a secret is configured; the step that
\* gives this answer changes no wallet, transaction, beneficiary or
\* analytics row
C26_OtherEventsIgnored ==
    [][/\ \A secret \in BOOLEAN, e \in Events \ {"charge.success"},
             ref \in Refs, pay \in Amounts :
             LET rec == WebhookReceived(secret, TRUE, e, ref, pay)
             IN rec.pc = "idle" /\ rec.resp = IgnoredAnswer
       /\ (response' # response /\ response'.resp = IgnoredAnswer)
          => /\ LedgerState' = LedgerState
             /\ credited' = credited]_vars

\* an ignored event that named the reference of a pending transaction
C26_Witness ==
    /\ response.resp = IgnoredAnswer
    /\ response.ref \in DOMAIN txns
    /\ txns[response.ref].status = "pending"

\* worker p's charge of a saved card gets the provider's answer in this step
ChargeAnswered(p, resp) ==
    /\ procs[p].pc = "charge_call"
    /\ procs'[p].pc = "idle"
    /\ response'.resp = resp

\* C27: a charge the provider reports successful completes its transaction
\* and raises the stored balance by exactly the amount over its value just
\* before the commit, whatever was committed on the wallet while the call
\* was in flight; a charge the provider reports failed marks its transaction
\* failed and changes no balance
C27_ChargeCreditsExactly ==
    [][\A p \in Procs :
          LET pr == procs[p]
          IN /\ ChargeAnswered(p, <<200, "Wallet topped up successfully">>)
                => /\ txns'[pr.ref].status = "completed"
                   /\ wallets'[pr.user].balance =
                        wallets[pr.user].balance + pr.amount
             /\ ChargeAnswered(p, <<400, "Failed to charge card">>)
                => /\ txns'[pr.ref].status = "failed"
                   /\ wallets' = wallets]_vars

\* C28: when a bill payment of x reaches its commit, a wallet that is
\* active, not frozen and holds at least x loses exactly x and gains one
\* completed debit row; a wallet that holds less than x, or is frozen or
\* inactive, keeps its balance and the ledger gains no row
C28_BillPaymentDebitsOrFails ==
    [][\A p \in Procs :
          LET pr == procs[p]
              u == pr.user
          IN (pr.pc = "bill_lock" /\ procs'[p].pc = "idle")
             => IF can_transact(wallets[u], pr.amount)
                  THEN /\ wallets'[u].balance = wallets[u].balance - pr.amount
                       /\ Len(txns') = Len(txns) + 1
                       /\ txns'[Len(txns')].status = "completed"
                       /\ txns'[Len(txns')].transaction_type = "debit"
                       /\ txns'[Len(txns')].amount = pr.amount
                  ELSE /\ wallets' = wallets
                       /\ txns' = txns]_vars

\* this step appends one row, a completed deposit: add_money_to_wallet ran
DepositCommits ==
    /\ Len(txns') = Len(txns) + 1
    /\ txns'[Len(txns')].transaction_category = "deposit"
    /\ txns'[Len(txns')].status = "completed"

\* C29: a deposit can run on every existing wallet whose row is not locked,
\* frozen and inactive ones included; the one step in which it runs raises
\* the balance by exactly the amount, writes a row that is completed from
\* the start with balance_before the old and balance_after the new balance,
\* and records the credit in the user's analytics
C29_DepositAlwaysCredits ==
    [][/\ \A u \in Users, a \in Amounts :
             (wallets[u].exists /\ lock[u] = 0 /\ started < MaxOps)
             => ENABLED AddMoneyToWallet(u, a)
       /\ DepositCommits
          => LET t == txns'[Len(txns')]
                 u == t.wallet
             IN /\ wallets'[u].balance = wallets[u].balance + t.amount
                /\ wallets'[u].is_frozen = wallets[u].is_frozen
                /\ wallets'[u].is_active = wallets[u].is_active
                /\ \A v \in Users \ {u} : wallets'[v] = wallets[v]
                /\ t.transaction_type = "credit"
                /\ t.balance_before = wallets[u].balance
                /\ t.balance_after = wallets'[u].balance
                /\ analytics'[u].exists
                /\ analytics'[u].total_credits = analytics[u].total_credits + t.amount
                /\ analytics'[u].total_transactions =
                     analytics[u].total_transactions + 1
                /\ analytics'[u].closing_balance = wallets'[u].balance]_vars

\* a deposit was made on a frozen wallet and another on an inactive one
C29_Witness ==
    /\ \E i \in DOMAIN txns :
          /\ txns[i].transaction_category = "deposit"
          /\ txns[i].status = "completed"
          /\ wallets[txns[i].wallet].is_frozen
    /\ \E i \in DOMAIN txns :
          /\ txns[i].transaction_category = "deposit"
          /\ txns[i].status = "completed"
          /\ ~wallets[txns[i].wallet].is_active

\* worker p waits for the provider's answer to transaction/initialize or to
\* transaction/verify
AwaitsProvider(p) ==
    procs[p].pc \in {"topup_call", "wh_verify", "poll_verify"}

\* C30: a request that waits for the provider's answer, in the top-up
\* initiation, the webhook or the poll, holds no wallet row lock
C30_NoLockDuringProviderCall ==
    \A p \in Procs :
        AwaitsProvider(p) => \A u \in Users : lock[u] # p

\* while a request waits for the provider, another request has taken the
\* row lock of the very wallet the first one is about
C30_Witness ==
    \E p \in Procs, q \in Procs :
        /\ AwaitsProvider(p)
        /\ procs[p].tsnap.wallet \in Users
        /\ lock[procs[p].tsnap.wallet] = q

\* card table cs with the authorization code of card i replaced by code
WithCode(cs, i, code) == [cs EXCEPT ![i].authorization_code = code]

\* C31: in every reachable state, replacing the authorization code of any
\* one saved card by any other code changes no output: the card listing of
\* every user, the lookup that decides the answer of a charge request, and
\* the response a request in flight is about to give are the same, and the
\* response last sent does not depend on the code its request read
C31_AuthorizationCodeNotExposed ==
    \A i \in DOMAIN cards, code \in {"AUTH_a", "AUTH_b", "AUTH_c", "AUTH_x"} :
        /\ \A u \in Users :
              ListedCards(WithCode(cards, i, code), u) = ListedCards(cards, u)
        /\ \A u \in Users, c \in 1..(Len(cards) + 1) :
              CardFound(WithCode(cards, i, code), u, c) = CardFound(cards, u, c)
        /\ \A p \in Procs :
              ResponseOf([procs[p] EXCEPT !.auth = code]) = ResponseOf(procs[p])

\* the listing has returned a card, and a verification has stored another
C31_Witness ==
    /\ response.op = "list_cards"
    /\ response.data # {}
    /\ \E i \in DOMAIN cards : cards[i].authorization_code = "AUTH_a"

\* worker p commits a credit from the gateway in this step: the credit of a
\* reconciliation, or that of a successful charge of a saved card
GatewayCreditCommits(p) ==
    \/ ReconcileCommits(p)
    \/ ChargeAnswered(p, <<200, "Wallet topped up successfully">>)

\* C32: the step that commits the credit of a reconciled top-up or of a
\* successful charge also records it in the owner's analytics row: the
\* row's total_credits grows by the amount, total_transactions by 1, and
\* closing_balance is the new balance
C32_GatewayCreditsUpdateAnalytics ==
    [][\A p \in Procs :
          GatewayCreditCommits(p)
          => LET t == procs[p].tsnap
                 u == t.wallet
             IN /\ analytics'[u].exists
                /\ analytics'[u].total_credits = analytics[u].total_credits + t.amount
                /\ analytics'[u].total_transactions =
                     analytics[u].total_transactions + 1
                /\ analytics'[u].closing_balance = wallets'[u].balance]_vars

\* the completed rows of user u that this step appends to the ledger
NewCompletedRows(u) ==
    {i \in (Len(txns) + 1)..Len(txns') :
        txns'[i].wallet = u /\ txns'[i].status = "completed"}

\* analytics row after is row before with the completed row t recorded
\* once, the user's balance being bal
RecordedOnce(before, after, t, bal) ==
    LET credit == t.transaction_type = "credit"
        debit == t.transaction_type = "debit"
        cat == t.transaction_category
        Plus(b) == IF b THEN 1 ELSE 0
    IN /\ after.exists
       /\ after.total_credits = before.total_credits + (IF credit THEN t.amount ELSE 0)
       /\ after.total_debits = before.total_debits + (IF debit THEN t.amount ELSE 0)
       /\ after.total_transactions = before.total_transactions + 1
       /\ after.transfers_received =
            before.transfers_received + Plus(credit /\ cat = "transfer")
       /\ after.transfers_sent =
            before.transfers_sent + Plus(debit /\ cat = "transfer")
       /\ after.bill_payments =
            before.bill_payments + Plus(debit /\ cat = "bill_payment")
       /\ after.airtime_purchases =
            before.airtime_purchases + Plus(debit /\ cat = "airtime")
       /\ after.closing_balance = bal

\* C33: a step in which a transfer, a deposit or a bill payment writes
\* completed rows records each of them exactly once in the analytics row of
\* the row's user (amount added to total_credits or to total_debits, never
\* both; total_transactions plus 1; the one matching counter plus 1, none
\* for a deposit; closing_balance the user's balance after the step) and
\* leaves the analytics rows of all other users unchanged
C33_AnalyticsRecordedOnce ==
    [][\A u \in Users :
          IF NewCompletedRows(u) = {}
            THEN (Len(txns') > Len(txns)) => analytics'[u] = analytics[u]
            ELSE /\ Cardinality(NewCompletedRows(u)) = 1
                 /\ \A i \in NewCompletedRows(u) :
                       RecordedOnce(analytics[u], analytics'[u], txns'[i],
                                    wallets'[u].balance)]_vars

\* user 1 has sent a transfer and paid a bill, user 2 has received the
\* transfer
C33_Witness ==
    /\ analytics[1].transfers_sent = 1
    /\ analytics[1].bill_payments + analytics[1].airtime_purchases = 1
    /\ analytics[2].transfers_received = 1

\* the debit rows among the first n rows that record a completed transfer
\* from s to r
TransfersTo(s, r, n) ==
    {i \in 1..n : /\ txns[i].transaction_type = "debit"
                  /\ txns[i].transaction_category = "transfer"
                  /\ txns[i].status = "completed"
                  /\ txns[i].sender = s
                  /\ txns[i].recipient = r}

\* the sum of their amounts
RECURSIVE SentTo(_, _, _)
SentTo(s, r, n) ==
    IF n = 0 THEN 0
    ELSE SentTo(s, r, n - 1) + (IF n \in TransfersTo(s, r, n) THEN txns[n].amount ELSE 0)

\* C34: in every reachable state the beneficiary row of every ordered pair
\* (sender, recipient) counts the completed transfers from the sender to
\* the recipient and totals their amounts
C34_BeneficiaryMatchesTransfers ==
    \A s \in Users, r \in Users :
        /\ beneficiaries[<<s, r>>].transaction_count =
             Cardinality(TransfersTo(s, r, Len(txns)))
        /\ beneficiaries[<<s, r>>].total_sent = SentTo(s, r, Len(txns))

\* no two rows of the ledger have the same reference
UniqueReferences ==
    \A i \in DOMAIN txns, j \in DOMAIN txns :
        i # j => txns[i].reference # txns[j].reference

\* the ledger consists of transfers' pairs: a debit row followed by the
\* credit row of the same transfer
DebitsWithCredits ==
    /\ Len(txns) % 2 = 0
    /\ \A k \in 1..(Len(txns) \div 2) :
          /\ txns[2 * k - 1].transaction_type = "debit"
          /\ txns[2 * k].transaction_type = "credit"
          /\ txns[2 * k].amount = txns[2 * k - 1].amount
          /\ txns[2 * k].sender = txns[2 * k - 1].sender
          /\ txns[2 * k].recipient = txns[2 * k - 1].recipient

\* C35: no two ledger rows ever share a reference and every debit row has
\* its credit row; a transfer that ends with status 500 at its commit (one
\* of its references was taken) changes no wallet, ledger, beneficiary or
\* analytics row
C35_ReferencesUnique ==
    /\ [](UniqueReferences /\ DebitsWithCredits)
    /\ [][\A p \in Procs :
            (/\ procs[p].pc = "xfer_lock_sender"
             /\ procs'[p].pc = "idle"
             /\ response'.resp[1] = 500)
            => LedgerState' = LedgerState]_vars

\* a transfer was rolled back on a collision after another had committed
C35_Witness ==
    /\ Len(txns) = 2
    /\ started = 2
    /\ response.op = "transfer"
    /\ response.resp[1] = 500
    /\ \A p \in Procs : procs[p].pc = "idle"

\* some saved card has the authorization code a
Stored(cs, a) == \E i \in DOMAIN cs : cs[i].authorization_code = a

\* C36: the step that commits the credit of a reconciliation, by the
\* webhook or by the poll, whose verification carried an authorization code
\* that no saved card has, adds one card with that code for the
\* transaction's owner, the default one if the owner had no card; a
\* verification without a code, or with a code already stored, leaves the
\* saved cards as they are
C36_ReconcileSavesCard ==
    [][\A p \in Procs :
          ReconcileCommits(p)
          => LET a == procs[p].auth
                 u == procs[p].tsnap.wallet
             IN IF a # NoAuth /\ ~Stored(cards, a)
                  THEN /\ Len(cards') = Len(cards) + 1
                       /\ cards'[Len(cards')].authorization_code = a
                       /\ cards'[Len(cards')].user = u
                       /\ cards'[Len(cards')].is_default =
                            ~(\E j \in DOMAIN cards : cards[j].user = u)
                  ELSE cards' = cards]_vars

\* the responses of a PIN verification that fails
PinRefusals ==
    {"Transaction PIN not set. Please set up your PIN first.",
     "Transaction PIN is disabled",
     "Transaction PIN is locked. Try again later.",
     "Too many failed attempts. PIN locked for 30 minutes.",
     "Invalid PIN. 2 attempts remaining.",
     "Invalid PIN. 1 attempts remaining."}

\* worker p ends the verification of a PIN that is not the stored one
WrongPinSaved(p) ==
    /\ procs[p].pc = "pin_save"
    /\ procs[p].psnap.pin # make_password(procs[p].pin)
    /\ procs'[p] # procs[p]

\* worker p goes on to the ledger operation of its transfer or bill payment
EntersLedger(p) ==
    /\ procs[p].pc \in {"idle", "pin_save"}
    /\ procs'[p].pc \in {"xfer_lock_recipient", "bill_lock"}

\* C37: a transfer or bill payment whose PIN is wrong, locked, disabled or
\* not set is answered 400 and does not reach its ledger operation: no
\* balance changes and no transaction is written; a request reaches its
\* ledger operation only with the stored PIN or, the PIN row untouched, with
\* no PIN at all
C37_FailedPinBlocksLedger ==
    [][/\ \A p \in Procs :
            WrongPinSaved(p)
            => /\ procs'[p].pc = "idle"
               /\ response'.resp[1] = 400 /\ response'.resp[2] \in PinRefusals
               /\ LedgerState' = LedgerState
       /\ (response' # response /\ response'.resp[2] \in PinRefusals)
            => (/\ response'.resp[1] = 400
                /\ LedgerState' = LedgerState
                /\ \A p \in Procs : ~EntersLedger(p))
       /\ \A p \in Procs :
            EntersLedger(p)
            => IF procs[p].pc = "idle"
                 THEN pins' = pins
                 ELSE procs[p].psnap.pin = make_password(procs[p].pin)]_vars

\* a transfer was refused for its wrong PIN, another went through without a
\* PIN while the PIN was locked
C37_Witness ==
    /\ response.op = "transfer"
    /\ response.resp[2] = "Too many failed attempts. PIN locked for 30 minutes."
    /\ txns = <<>>
    /\ pins[1].locked_until = "future"
    /\ \E p \in Procs : procs[p].pc = "xfer_lock_recipient" /\ procs[p].user = 1

\* C38: failed_attempts never exceeds three; the PIN becomes locked by the
\* failure that raises failed_attempts to three, and by no other step; while
\* it is locked no verification reaches check_password and a refused request
\* leaves the PIN row as it is; a verification with the stored PIN sets
\* failed_attempts to 0
C38_PinLockout ==
    /\ [](\A u \in Users : pins[u].failed_attempts <= MaxFailedAttempts)
    /\ [][\A u \in Users :
            (pins[u].locked_until # "future" /\ pins'[u].locked_until = "future")
            => (/\ pins[u].failed_attempts = MaxFailedAttempts - 1
                /\ pins'[u].failed_attempts = MaxFailedAttempts)]_vars
    /\ [][\A p \in Procs :
            (procs[p].pc = "idle" /\ procs'[p].pc = "pin_save")
            => pins[procs'[p].user].locked_until # "future"]_vars
    /\ [][(response' # response
             /\ response'.resp[2] = "Transaction PIN is locked. Try again later.")
            => pins' = pins]_vars
    /\ [][\A p \in Procs :
            (procs[p].pc = "pin_save" /\ procs'[p] # procs[p]
               /\ procs[p].psnap.pin = make_password(procs[p].pin))
            => pins'[procs[p].user].failed_attempts = 0]_vars

\* worker p serves a poll between its provider call and its commit
Polling(p) == procs[p].pc \in {"poll_verify", "poll_credit"}

\* C39: a poll goes on to the provider's verify call, and from there to the
\* ledger, only for a transaction of the polling user's own wallet; a poll
\* answered 403 changes no transaction, no balance and no saved card and
\* leaves its worker idle
C39_ForeignPollRefused ==
    /\ [](\A p \in Procs : Polling(p) => txns[procs[p].ref].wallet = procs[p].user)
    /\ [][(response' # response /\ response'.resp = <<403, "Unauthorized">>)
            => (/\ response'.op = "poll"
                /\ txns' = txns /\ wallets' = wallets /\ cards' = cards
                /\ credited' = credited
                /\ \A p \in Procs : ~Polling(p) => ~Polling(p)')]_vars

\* another user's poll of a pending top-up was refused, and the top-up is
\* still pending
C39_Witness ==
    /\ response.op = "poll"
    /\ response.resp = <<403, "Unauthorized">>
    /\ response.ref \in DOMAIN txns
    /\ txns[response.ref].status = "pending"
    /\ txns[response.ref].wallet = 1

\* the cards of user u that are marked default
DefaultCards(cs, u) == {i \in DOMAIN cs : cs[i].user = u /\ cs[i].is_default}

\* worker p takes up a set-default request that names a card which does not
\* exist or is another user's
SetDefaultOfMissingCard(p) ==
    /\ procs[p].pc = "idle"
    /\ procs'[p].pc = "default_get"
    /\ ~(procs'[p].card \in DOMAIN cards /\ cards[procs'[p].card].user = procs'[p].user)

\* C40: no user ever has two default cards, and a set-default request that
\* names a card which does not exist or is another user's changes no card
\* and is answered 404
C40_OneDefaultCard ==
    /\ [](\A u \in Users : Cardinality(DefaultCards(cards, u)) <= 1)
    /\ [][\A p \in Procs : SetDefaultOfMissingCard(p) => cards' = cards]_vars
    /\ [][\A p \in Procs :
            (procs[p].pc = "default_get" /\ procs'[p] # procs[p]
               /\ ~(procs[p].card \in DOMAIN cards
                      /\ cards[procs[p].card].user = procs[p].user))
            => response'.resp = <<404, "Card not found">>]_vars

====
